---- MODULE Spec2Model ----
(***************************************************************************)
(* Deployment engine and link registry of the Agent Skill Builder.         *)
(*                                                                         *)
(* Strings are sequences of one-character strings, so that startsWith,     *)
(* includes, endsWith, trim, the name pattern and path joins are computed  *)
(* the way the code computes them.  A text file is the sequence of its     *)
(* lines (text.split("\n")).  The filesystem is a flat map from absolute   *)
(* paths to nodes; relative paths are resolved against the working         *)
(* directory, as the operating system does.                                *)
(***************************************************************************)
EXTENDS Integers, Sequences, FiniteSets, TLC

VARIABLES fs, home, last

vars == <<fs, home, last>>

----------------------------------------------------------------------------
(* Bounds of the model *)

MaxTargets == 2

MaxLinks == 3

MaxTemps == 2

----------------------------------------------------------------------------
(* String helpers *)

StartsWith(s, p) == Len(s) >= Len(p) /\ SubSeq(s, 1, Len(p)) = p

EndsWith(s, p) == Len(s) >= Len(p) /\ SubSeq(s, Len(s) - Len(p) + 1, Len(s)) = p

Includes(s, p) == \E i \in 1..(Len(s) + 1) : i + Len(p) - 1 <= Len(s) /\ SubSeq(s, i, i + Len(p) - 1) = p

IsWs(c) == c \in {" ", "\t", "\r"}

RECURSIVE TrimStart(_)
TrimStart(s) == IF s # <<>> /\ IsWs(Head(s)) THEN TrimStart(Tail(s)) ELSE s

RECURSIVE TrimEnd(_)
TrimEnd(s) == IF s # <<>> /\ IsWs(s[Len(s)]) THEN TrimEnd(SubSeq(s, 1, Len(s) - 1)) ELSE s

Trim(s) == TrimEnd(TrimStart(s))

NameChars == {"a", "b", "c", "d", "e", "f", "g", "h", "i", "j", "k", "l", "m", "n", "o", "p", "q", "r", "s", "t", "u", "v", "w", "x", "y", "z", "0", "1", "2", "3", "4", "5", "6", "7", "8", "9", "-"}

\* /^[a-z0-9-]+$/.test(s)
NameRegexTest(s) == Len(s) >= 1 /\ \A i \in 1..Len(s) : s[i] \in NameChars

Undef == [def |-> FALSE, v |-> <<>>]

Some(x) == [def |-> TRUE, v |-> x]

----------------------------------------------------------------------------
(* Program constants *)

TARGET_PATHS_claude_user == <<"~", "/", ".", "c", "l", "a", "u", "d", "e", "/", "s", "k", "i", "l", "l", "s">>

TARGET_PATHS_claude_project == <<".", "c", "l", "a", "u", "d", "e", "/", "s", "k", "i", "l", "l", "s">>

TARGET_PATHS_codex_user == <<"~", "/", ".", "c", "o", "d", "e", "x", "/", "s", "k", "i", "l", "l", "s">>

TARGET_PATHS_codex_project == <<".", "c", "o", "d", "e", "x", "/", "s", "k", "i", "l", "l", "s">>

TARGET_PATHS_cursor_project == <<".", "c", "u", "r", "s", "o", "r", "r", "u", "l", "e", "s">>

SKILL_MD == <<"S", "K", "I", "L", "L", ".", "m", "d">>

DeployTarget == {"claude", "codex", "cursor"}

----------------------------------------------------------------------------
(* Environment: home directory, working directory, paths *)

HOME == <<"/", "h">>

CWD == <<"/", "w">>

\* join(a, b) of std/path for two segments without "." or ".." parts
Join(a, b) == IF b = <<>> THEN a ELSE IF a = <<>> THEN b ELSE a \o <<"/">> \o b

\* The operating system resolves a relative path against the working directory
Abs(p) == IF StartsWith(p, <<"/">>) THEN p ELSE Join(CWD, p)

ExpandHome(filepath, h) ==
  IF StartsWith(filepath, <<"~", "/">>)
  THEN IF ~h.def THEN [ok |-> FALSE, v |-> <<>>]
       ELSE [ok |-> TRUE, v |-> Join(h.v, SubSeq(filepath, 3, Len(filepath)))]
  ELSE [ok |-> TRUE, v |-> filepath]

----------------------------------------------------------------------------
(* Filesystem: a function from absolute paths to nodes *)

NoJson == [ok |-> FALSE, version |-> <<>>, isArr |-> FALSE, links |-> <<>>]

DirNode == [kind |-> "dir", text |-> <<>>, json |-> NoJson]

TextFile(lines) == [kind |-> "file", text |-> lines, json |-> NoJson]

JsonFile(doc) == [kind |-> "file", text |-> <<>>, json |-> doc]

\* exists(path): Deno.stat succeeds
Exists(f, p) == Abs(p) \in DOMAIN f

IsDirectory(f, p) == Exists(f, p) /\ f[Abs(p)].kind = "dir"

IsUnder(q, p) == StartsWith(q, p \o <<"/">>)

\* the proper ancestors of an absolute path
Ancestors(p) == {SubSeq(p, 1, i - 1) : i \in {j \in 2..Len(p) : p[j] = "/"}}

Put(f, p, node) == [q \in (DOMAIN f) \cup {p} |-> IF q = p THEN node ELSE f[q]]

\* Deno.mkdir(path, { recursive: true })
MkdirP(f, p) ==
  LET ap == Abs(p)
      new == (Ancestors(ap) \cup {ap}) \ DOMAIN f
  IN [q \in (DOMAIN f) \cup new |-> IF q \in new THEN DirNode ELSE f[q]]

\* Deno.remove(path, { recursive: true })
RemoveRecursive(f, p) ==
  LET ap == Abs(p)
  IN [q \in {r \in DOMAIN f : r # ap /\ ~IsUnder(r, ap)} |-> f[q]]

\* Deno.writeTextFile(path, text): creates or overwrites the file
WriteNode(f, p, node) == Put(f, Abs(p), node)

\* ensureDir(path)
EnsureDir(f, p) == MkdirP(f, p)

\* copyDir(src, dest): ensureDir(dest), then every entry below src is copied
\* to the same relative place below dest; entries of dest that src does not
\* have are left alone
CopyDir(f, src, dest) ==
  LET as == Abs(src)
      ad == Abs(dest)
      g == EnsureDir(f, dest)
      sub == {q \in DOMAIN f : IsUnder(q, as)}
      Tgt(q) == ad \o SubSeq(q, Len(as) + 1, Len(q))
      new == {Tgt(q) : q \in sub}
  IN [r \in (DOMAIN g) \cup new |->
        IF r \in new THEN f[CHOOSE q \in sub : Tgt(q) = r] ELSE g[r]]

----------------------------------------------------------------------------
(* Manifest parsing (utils.ts parseFrontmatter, validator.ts parseSkillFile) *)

FENCE == <<"-", "-", "-">>

VUndef == [t |-> "undef", s |-> <<>>, a |-> <<>>]

VNull == [t |-> "null", s |-> <<>>, a |-> <<>>]

VStr(x) == [t |-> "str", s |-> x, a |-> <<>>]

VNum(x) == [t |-> "num", s |-> x, a |-> <<>>]

VArr(x) == [t |-> "arr", s |-> <<>>, a |-> x]

EmptyMetadata == [isNull |-> FALSE, name |-> VUndef, description |-> VUndef, allowedTools |-> VUndef, model |-> VUndef, skills |-> VUndef]

NullMetadata == [EmptyMetadata EXCEPT !.isNull = TRUE]

KeyName == <<"n", "a", "m", "e">>

KeyDescription == <<"d", "e", "s", "c", "r", "i", "p", "t", "i", "o", "n">>

KeyModel == <<"m", "o", "d", "e", "l">>

Digits == {"0", "1", "2", "3", "4", "5", "6", "7", "8", "9"}

\* a YAML plain scalar: empty is null, all digits is a number, else a string
YamlScalar(x) ==
  IF x = <<>> THEN VNull
  ELSE IF \A i \in 1..Len(x) : x[i] \in Digits THEN VNum(x)
  ELSE VStr(x)

ColonAt(line) == {i \in 1..Len(line) : line[i] = ":"}

FirstColon(line) == CHOOSE i \in ColonAt(line) : \A j \in ColonAt(line) : i <= j

\* parseYaml of the std library, for block mappings of plain scalars
\* ("key: value" lines); a line without a colon is a syntax error here
RECURSIVE ParseYamlLines(_, _)
ParseYamlLines(ls, md) ==
  IF ls = <<>> THEN [ok |-> TRUE, md |-> md]
  ELSE LET line == Head(ls) IN
       IF ColonAt(line) = {} THEN [ok |-> FALSE, md |-> md]
       ELSE LET k == SubSeq(line, 1, FirstColon(line) - 1)
                val == YamlScalar(Trim(SubSeq(line, FirstColon(line) + 1, Len(line))))
                md2 == IF k = KeyName THEN [md EXCEPT !.name = val]
                       ELSE IF k = KeyDescription THEN [md EXCEPT !.description = val]
                       ELSE IF k = KeyModel THEN [md EXCEPT !.model = val]
                       ELSE md
            IN ParseYamlLines(Tail(ls), md2)

ParseYaml(ls) == IF ls = <<>> THEN [ok |-> TRUE, md |-> NullMetadata] ELSE ParseYamlLines(ls, EmptyMetadata)

ClosingFences(lines) == {i \in 2..Len(lines) : Trim(lines[i]) = FENCE}

\* parseFrontmatter(text): text is given as its lines
parseFrontmatter(lines) ==
  IF lines = <<>> \/ Trim(lines[1]) # FENCE
  THEN [ok |-> FALSE, err |-> "MustStartWithFrontmatter", metadata |-> EmptyMetadata, content |-> <<>>]
  ELSE IF ClosingFences(lines) = {}
  THEN [ok |-> FALSE, err |-> "FrontmatterMustEnd", metadata |-> EmptyMetadata, content |-> <<>>]
  ELSE LET k == CHOOSE i \in ClosingFences(lines) : \A j \in ClosingFences(lines) : i <= j
           y == ParseYaml(SubSeq(lines, 2, k - 1))
       IN IF ~y.ok
          THEN [ok |-> FALSE, err |-> "InvalidYamlSyntax", metadata |-> EmptyMetadata, content |-> <<>>]
          ELSE [ok |-> TRUE, err |-> "", metadata |-> y.md, content |-> SubSeq(lines, k + 1, Len(lines))]

\* readTextFile(path)
readTextFile(f, p) ==
  IF ~Exists(f, p) THEN [ok |-> FALSE, err |-> "FileNotFound", text |-> <<>>]
  ELSE IF f[Abs(p)].kind # "file" THEN [ok |-> FALSE, err |-> "IsADirectory", text |-> <<>>]
  ELSE [ok |-> TRUE, err |-> "", text |-> f[Abs(p)].text]

\* parseSkillFile(filepath)
parseSkillFile(f, p) ==
  LET r == readTextFile(f, p) IN
  IF ~r.ok THEN [ok |-> FALSE, err |-> r.err, metadata |-> EmptyMetadata, content |-> <<>>]
  ELSE parseFrontmatter(r.text)

----------------------------------------------------------------------------
(* Validation (validator.ts) *)

LIMITS_name == 64

LIMITS_description == 500

\* JavaScript falsiness of a header value
Falsy(v) == v.t \in {"undef", "null"} \/ (v.t = "str" /\ v.s = <<>>) \/ (v.t = "num" /\ v.s = <<"0">>)

Err(field, message) == [field |-> field, message |-> message]

NameErrors(v) ==
  IF Falsy(v) THEN <<Err("name", "Required field is missing")>>
  ELSE IF v.t # "str" THEN <<Err("name", "Must be a string")>>
  ELSE (IF Len(v.s) > LIMITS_name THEN <<Err("name", "Must be 64 characters or less")>> ELSE <<>>)
       \o (IF "\n" \in {v.s[i] : i \in 1..Len(v.s)} THEN <<Err("name", "Must be a single line (no newlines)")>> ELSE <<>>)
       \o (IF ~NameRegexTest(v.s) THEN <<Err("name", "Must contain only lowercase letters, numbers, and hyphens")>> ELSE <<>>)

DescriptionErrors(v) ==
  IF Falsy(v) THEN <<Err("description", "Required field is missing")>>
  ELSE IF v.t # "str" THEN <<Err("description", "Must be a string")>>
  ELSE (IF Len(v.s) > LIMITS_description THEN <<Err("description", "Must be 500 characters or less")>> ELSE <<>>)
       \o (IF "\n" \in {v.s[i] : i \in 1..Len(v.s)} THEN <<Err("description", "Must be a single line (no newlines)")>> ELSE <<>>)

RECURSIVE ItemErrors(_, _, _)
ItemErrors(field, items, i) ==
  IF i > Len(items) THEN <<>>
  ELSE (IF items[i].t # "str" THEN <<Err(field, "Item must be a string")>> ELSE <<>>)
       \o ItemErrors(field, items, i + 1)

ListErrors(field, v) ==
  IF v.t = "undef" THEN <<>>
  ELSE IF v.t # "arr" THEN <<Err(field, "Must be an array")>>
  ELSE ItemErrors(field, v.a, 1)

ModelErrors(v) == IF v.t # "undef" /\ v.t # "str" THEN <<Err("model", "Must be a string")>> ELSE <<>>

\* as validateMetadata, returning at the first field that has errors
validateMetadata_FirstFieldOnly(md) ==
  IF NameErrors(md.name) # <<>> THEN NameErrors(md.name)
  ELSE IF DescriptionErrors(md.description) # <<>> THEN DescriptionErrors(md.description)
  ELSE IF ListErrors("allowed-tools", md.allowedTools) # <<>> THEN ListErrors("allowed-tools", md.allowedTools)
  ELSE IF ModelErrors(md.model) # <<>> THEN ModelErrors(md.model)
  ELSE ListErrors("skills", md.skills)

\* validateMetadata(metadata), for a header that is an object
validateMetadata(md) ==
  NameErrors(md.name) \o DescriptionErrors(md.description)
    \o ListErrors("allowed-tools", md.allowedTools) \o ModelErrors(md.model)
    \o ListErrors("skills", md.skills)

\* as validateSkillFile, taking a header that is null for one without faults
validateSkillFile_NullHeaderPasses(f, p) ==
  LET sk == parseSkillFile(f, p) IN
  IF ~sk.ok THEN [valid |-> FALSE, errors |-> <<Err("file", sk.err)>>]
  ELSE IF sk.metadata.isNull THEN [valid |-> TRUE, errors |-> <<>>]
  ELSE LET errors == validateMetadata(sk.metadata)
       IN [valid |-> errors = <<>>, errors |-> errors]

\* validateSkillFile(filepath): a null header makes validateMetadata raise
\* a TypeError, which the catch turns into a "file" error
validateSkillFile(f, p) ==
  LET sk == parseSkillFile(f, p) IN
  IF ~sk.ok THEN [valid |-> FALSE, errors |-> <<Err("file", sk.err)>>]
  ELSE IF sk.metadata.isNull THEN [valid |-> FALSE, errors |-> <<Err("file", "TypeError")>>]
  ELSE LET errors == validateMetadata(sk.metadata)
       IN [valid |-> errors = <<>>, errors |-> errors]

\* validateSkillDir(dirPath)
validateSkillDir(f, dirPath) ==
  IF ~Exists(f, dirPath) THEN [valid |-> FALSE, errors |-> <<Err("directory", "NotFound")>>]
  ELSE IF ~IsDirectory(f, dirPath) THEN [valid |-> FALSE, errors |-> <<Err("directory", "Path is not a directory")>>]
  ELSE IF ~Exists(f, dirPath \o <<"/">> \o SKILL_MD) THEN [valid |-> FALSE, errors |-> <<Err("SKILL.md", "File not found in directory")>>]
  ELSE validateSkillFile(f, dirPath \o <<"/">> \o SKILL_MD)

----------------------------------------------------------------------------
(* Format converter (convertToCursorRules) *)

RuleMarker == <<"#", "#", " ", "R", "u", "l", "e", ":">>

GenericRule == <<"#", "#", " ", "R", "u", "l", "e", ":", " ", "S", "k", "i", "l", "l", " ", "I", "n", "s", "t", "r", "u", "c", "t", "i", "o", "n", "s">>

DescHdr == <<"#", "#", " ", "D", "e", "s", "c", "r", "i", "p", "t", "i", "o", "n">>

\* `${v}` in a template literal
TemplateString(v) ==
  IF v.t = "undef" THEN <<"u", "n", "d", "e", "f", "i", "n", "e", "d">>
  ELSE IF v.t = "null" THEN <<"n", "u", "l", "l">>
  ELSE v.s

\* the text Array.prototype.join gives an element: empty for undefined and null
JoinString(v) == IF v.t \in {"undef", "null"} THEN <<>> ELSE v.s

\* content.trim() on a text given as lines: blank lines at both ends go, the
\* first line loses its leading and the last line its trailing whitespace
RECURSIVE DropBlankHead(_)
DropBlankHead(ls) == IF ls # <<>> /\ Trim(Head(ls)) = <<>> THEN DropBlankHead(Tail(ls)) ELSE ls

RECURSIVE DropBlankTail(_)
DropBlankTail(ls) == IF ls # <<>> /\ Trim(ls[Len(ls)]) = <<>> THEN DropBlankTail(SubSeq(ls, 1, Len(ls) - 1)) ELSE ls

TrimText(ls) ==
  LET m == DropBlankTail(DropBlankHead(ls)) IN
  IF m = <<>> THEN << <<>> >>
  ELSE IF Len(m) = 1 THEN <<Trim(m[1])>>
  ELSE <<TrimStart(m[1])>> \o SubSeq(m, 2, Len(m) - 1) \o <<TrimEnd(m[Len(m)])>>

\* convertToCursorRules(skill): the lines of the returned document
convertToCursorRules(skill) ==
  << <<"#", " ">> \o TemplateString(skill.metadata.name), <<>>, DescHdr, JoinString(skill.metadata.description), <<>> >>
    \o (IF \E i \in 1..Len(skill.content) : Includes(skill.content[i], RuleMarker)
        THEN TrimText(skill.content)
        ELSE <<GenericRule, <<>> >> \o TrimText(skill.content))

----------------------------------------------------------------------------
(* Deployment engine (deployer.ts) *)

getTargetPath(target, isUserLevel) ==
  CASE target = "claude" -> IF isUserLevel THEN TARGET_PATHS_claude_user ELSE TARGET_PATHS_claude_project
    [] target = "codex" -> IF isUserLevel THEN TARGET_PATHS_codex_user ELSE TARGET_PATHS_codex_project
    [] target = "cursor" -> TARGET_PATHS_cursor_project

Outcome(target, success, path, error) == [target |-> target, success |-> success, path |-> path, error |-> error]

\* as deployToClaudeOrCodex, without the overwrite guard
deployToClaudeOrCodex_NoGuard(f, h, skillDir, target, skillName, options) ==
  LET expandedBase == ExpandHome(getTargetPath(target, TRUE), h) IN
  IF ~expandedBase.ok THEN [fs |-> f, result |-> Outcome(target, FALSE, Undef, "Could not determine home directory")]
  ELSE IF skillName.t # "str" THEN [fs |-> f, result |-> Outcome(target, FALSE, Undef, "TypeError")]
  ELSE LET targetPath == Join(expandedBase.v, skillName.s)
           f1 == IF Exists(f, targetPath) /\ ~options.dryRun THEN RemoveRecursive(f, targetPath) ELSE f
           f2 == IF ~options.dryRun THEN CopyDir(EnsureDir(f1, expandedBase.v), skillDir, targetPath) ELSE f1
       IN [fs |-> f2, result |-> Outcome(target, TRUE, Some(targetPath), "")]

\* as deployToClaudeOrCodex, with the dry run returning before the existence check
deployToClaudeOrCodex_DrySkipsCheck(f, h, skillDir, target, skillName, options) ==
  LET expandedBase == ExpandHome(getTargetPath(target, TRUE), h) IN
  IF ~expandedBase.ok THEN [fs |-> f, result |-> Outcome(target, FALSE, Undef, "Could not determine home directory")]
  ELSE IF skillName.t # "str" THEN [fs |-> f, result |-> Outcome(target, FALSE, Undef, "TypeError")]
  ELSE LET targetPath == Join(expandedBase.v, skillName.s) IN
       IF options.dryRun THEN [fs |-> f, result |-> Outcome(target, TRUE, Some(targetPath), "")]
       ELSE IF Exists(f, targetPath) /\ ~options.force
       THEN [fs |-> f, result |-> Outcome(target, FALSE, Undef, "Skill already exists. Use --force to overwrite.")]
       ELSE LET f1 == IF Exists(f, targetPath) THEN RemoveRecursive(f, targetPath) ELSE f
            IN [fs |-> CopyDir(EnsureDir(f1, expandedBase.v), skillDir, targetPath), result |-> Outcome(target, TRUE, Some(targetPath), "")]

\* as deployToClaudeOrCodex, copying over an existing destination without
\* removing it first
deployToClaudeOrCodex_CopiesOver(f, h, skillDir, target, skillName, options) ==
  LET expandedBase == ExpandHome(getTargetPath(target, TRUE), h) IN
  IF ~expandedBase.ok THEN [fs |-> f, result |-> Outcome(target, FALSE, Undef, "Could not determine home directory")]
  ELSE IF skillName.t # "str" THEN [fs |-> f, result |-> Outcome(target, FALSE, Undef, "TypeError")]
  ELSE LET targetPath == Join(expandedBase.v, skillName.s) IN
       IF Exists(f, targetPath) /\ ~options.force
       THEN [fs |-> f, result |-> Outcome(target, FALSE, Undef, "Skill already exists. Use --force to overwrite.")]
       ELSE LET f2 == IF ~options.dryRun THEN CopyDir(EnsureDir(f, expandedBase.v), skillDir, targetPath) ELSE f
            IN [fs |-> f2, result |-> Outcome(target, TRUE, Some(targetPath), "")]

\* deployToClaudeOrCodex(skillDir, target, skillName, options): the
\* filesystem after the call and the outcome.  join() raises a TypeError for
\* a name that is not a string; the catch turns every error into an outcome.
deployToClaudeOrCodex(f, h, skillDir, target, skillName, options) ==
  LET expandedBase == ExpandHome(getTargetPath(target, TRUE), h) IN
  IF ~expandedBase.ok THEN [fs |-> f, result |-> Outcome(target, FALSE, Undef, "Could not determine home directory")]
  ELSE IF skillName.t # "str" THEN [fs |-> f, result |-> Outcome(target, FALSE, Undef, "TypeError")]
  ELSE LET targetPath == Join(expandedBase.v, skillName.s) IN
       IF Exists(f, targetPath) /\ ~options.force
       THEN [fs |-> f, result |-> Outcome(target, FALSE, Undef, "Skill already exists. Use --force to overwrite.")]
       ELSE LET f1 == IF Exists(f, targetPath) /\ ~options.dryRun THEN RemoveRecursive(f, targetPath) ELSE f
                f2 == IF ~options.dryRun THEN CopyDir(EnsureDir(f1, expandedBase.v), skillDir, targetPath) ELSE f1
            IN [fs |-> f2, result |-> Outcome(target, TRUE, Some(targetPath), "")]

\* as deployToCursor, writing the file in a dry run too
deployToCursor_WritesOnDryRun(f, skillDir, options) ==
  LET skill == parseSkillFile(f, Join(skillDir, SKILL_MD))
      targetPath == TARGET_PATHS_cursor_project
  IN
  IF ~skill.ok THEN [fs |-> f, result |-> Outcome("cursor", FALSE, Undef, skill.err)]
  ELSE IF skill.metadata.isNull THEN [fs |-> f, result |-> Outcome("cursor", FALSE, Undef, "TypeError")]
  ELSE IF Exists(f, targetPath) /\ ~options.force
  THEN [fs |-> f, result |-> Outcome("cursor", FALSE, Undef, "already exists. Use --force to overwrite.")]
  ELSE [fs |-> WriteNode(f, targetPath, TextFile(convertToCursorRules(skill))),
        result |-> Outcome("cursor", TRUE, Some(targetPath), "")]

\* as deployToCursor, writing the file whether or not it exists
deployToCursor_Overwrites(f, skillDir, options) ==
  LET skill == parseSkillFile(f, Join(skillDir, SKILL_MD))
      targetPath == TARGET_PATHS_cursor_project
  IN
  IF ~skill.ok THEN [fs |-> f, result |-> Outcome("cursor", FALSE, Undef, skill.err)]
  ELSE IF skill.metadata.isNull THEN [fs |-> f, result |-> Outcome("cursor", FALSE, Undef, "TypeError")]
  ELSE [fs |-> IF ~options.dryRun THEN WriteNode(f, targetPath, TextFile(convertToCursorRules(skill))) ELSE f,
        result |-> Outcome("cursor", TRUE, Some(targetPath), "")]

\* deployToCursor(skillDir, options)
deployToCursor(f, skillDir, options) ==
  LET skill == parseSkillFile(f, Join(skillDir, SKILL_MD))
      targetPath == TARGET_PATHS_cursor_project
  IN
  IF ~skill.ok THEN [fs |-> f, result |-> Outcome("cursor", FALSE, Undef, skill.err)]
  ELSE IF skill.metadata.isNull THEN [fs |-> f, result |-> Outcome("cursor", FALSE, Undef, "TypeError")]
  ELSE IF Exists(f, targetPath) /\ ~options.force
  THEN [fs |-> f, result |-> Outcome("cursor", FALSE, Undef, "already exists. Use --force to overwrite.")]
  ELSE [fs |-> IF ~options.dryRun THEN WriteNode(f, targetPath, TextFile(convertToCursorRules(skill))) ELSE f,
        result |-> Outcome("cursor", TRUE, Some(targetPath), "")]

deployOne(f, h, skillDir, target, skillName, options) ==
  IF target = "cursor" THEN deployToCursor(f, skillDir, options)
  ELSE deployToClaudeOrCodex(f, h, skillDir, target, skillName, options)

RECURSIVE DeployLoop(_, _, _, _, _, _, _)

\* as DeployStep, leaving the loop at the first failed outcome
DeployStep_StopsAtFailure(r, f, h, skillDir, skillName, options, i, steps) ==
  IF ~r.result.success THEN [fs |-> r.fs, steps |-> Append(steps, [pre |-> f, post |-> r.fs, result |-> r.result])]
  ELSE DeployLoop(r.fs, h, skillDir, skillName, options, i + 1,
                  Append(steps, [pre |-> f, post |-> r.fs, result |-> r.result]))

\* the end of one turn of the loop of deploySkill, r being what the deployer
\* of target i returned: results.push(result), then the next target
DeployStep(r, f, h, skillDir, skillName, options, i, steps) ==
  DeployLoop(r.fs, h, skillDir, skillName, options, i + 1,
             Append(steps, [pre |-> f, post |-> r.fs, result |-> r.result]))

\* the loop of deploySkill over options.targets[i..]; steps records, for each
\* target, the filesystem before and after its turn and its outcome
DeployLoop(f, h, skillDir, skillName, options, i, steps) ==
  IF i > Len(options.targets) THEN [fs |-> f, steps |-> steps]
  ELSE DeployStep(deployOne(f, h, skillDir, options.targets[i], skillName, options),
                  f, h, skillDir, skillName, options, i, steps)

\* what deploySkill returns once its loop l has ended
DeployResults(l) ==
  [threw |-> FALSE, error |-> "", fs |-> l.fs, steps |-> l.steps,
   results |-> [j \in 1..Len(l.steps) |-> l.steps[j].result]]

\* as deploySkill, reading the name when a target needs it: a manifest
\* that cannot be parsed gives every claude and codex target a failed outcome
deploySkill_ParsesPerTarget(f, h, skillDir, options) ==
  LET skill == parseSkillFile(f, Join(skillDir, SKILL_MD)) IN
  IF ~skill.ok \/ skill.metadata.isNull
  THEN DeployResults(DeployLoop(f, h, skillDir, VUndef, options, 1, <<>>))
  ELSE DeployResults(DeployLoop(f, h, skillDir, skill.metadata.name, options, 1, <<>>))

\* deploySkill(skillDir, options): raises when the manifest cannot be parsed
\* or its header is null; otherwise one outcome per target
deploySkill(f, h, skillDir, options) ==
  LET skill == parseSkillFile(f, Join(skillDir, SKILL_MD)) IN
  IF ~skill.ok THEN [threw |-> TRUE, error |-> skill.err, fs |-> f, steps |-> <<>>, results |-> <<>>]
  ELSE IF skill.metadata.isNull THEN [threw |-> TRUE, error |-> "TypeError", fs |-> f, steps |-> <<>>, results |-> <<>>]
  ELSE DeployResults(DeployLoop(f, h, skillDir, skill.metadata.name, options, 1, <<>>))

RemoveResult(success, error) == [success |-> success, error |-> error]

\* as removeSkill, reporting a missing .cursorrules like a missing skill
removeSkill_CursorNotFound(f, h, skillName, target) ==
  IF target = "cursor"
  THEN IF ~Exists(f, TARGET_PATHS_cursor_project)
       THEN [fs |-> f, result |-> RemoveResult(FALSE, "Skill not found")]
       ELSE IF \E q \in DOMAIN f : IsUnder(q, Abs(TARGET_PATHS_cursor_project))
       THEN [fs |-> f, result |-> RemoveResult(FALSE, "Directory not empty")]
       ELSE [fs |-> RemoveRecursive(f, TARGET_PATHS_cursor_project), result |-> RemoveResult(TRUE, "")]
  ELSE LET expandedBase == ExpandHome(getTargetPath(target, TRUE), h) IN
       IF ~expandedBase.ok THEN [fs |-> f, result |-> RemoveResult(FALSE, "Could not determine home directory")]
       ELSE IF Exists(f, Join(expandedBase.v, skillName))
       THEN [fs |-> RemoveRecursive(f, Join(expandedBase.v, skillName)), result |-> RemoveResult(TRUE, "")]
       ELSE [fs |-> f, result |-> RemoveResult(FALSE, "Skill not found")]

\* as removeSkill, removing a directory only when it is empty
removeSkill_NotRecursive(f, h, skillName, target) ==
  IF target = "cursor"
  THEN IF ~Exists(f, TARGET_PATHS_cursor_project) THEN [fs |-> f, result |-> RemoveResult(TRUE, "")]
       ELSE IF \E q \in DOMAIN f : IsUnder(q, Abs(TARGET_PATHS_cursor_project))
       THEN [fs |-> f, result |-> RemoveResult(FALSE, "Directory not empty")]
       ELSE [fs |-> RemoveRecursive(f, TARGET_PATHS_cursor_project), result |-> RemoveResult(TRUE, "")]
  ELSE LET expandedBase == ExpandHome(getTargetPath(target, TRUE), h) IN
       IF ~expandedBase.ok THEN [fs |-> f, result |-> RemoveResult(FALSE, "Could not determine home directory")]
       ELSE IF Exists(f, Join(expandedBase.v, skillName))
       THEN IF \E q \in DOMAIN f : IsUnder(q, Abs(Join(expandedBase.v, skillName)))
            THEN [fs |-> f, result |-> RemoveResult(FALSE, "Directory not empty")]
            ELSE [fs |-> RemoveRecursive(f, Join(expandedBase.v, skillName)), result |-> RemoveResult(TRUE, "")]
       ELSE [fs |-> f, result |-> RemoveResult(FALSE, "Skill not found")]

\* removeSkill(skillName, target).  Deno.remove without recursive raises on a
\* directory that is not empty; the catch turns every error into a result.
removeSkill(f, h, skillName, target) ==
  IF target = "cursor"
  THEN IF ~Exists(f, TARGET_PATHS_cursor_project) THEN [fs |-> f, result |-> RemoveResult(TRUE, "")]
       ELSE IF \E q \in DOMAIN f : IsUnder(q, Abs(TARGET_PATHS_cursor_project))
       THEN [fs |-> f, result |-> RemoveResult(FALSE, "Directory not empty")]
       ELSE [fs |-> RemoveRecursive(f, TARGET_PATHS_cursor_project), result |-> RemoveResult(TRUE, "")]
  ELSE LET expandedBase == ExpandHome(getTargetPath(target, TRUE), h) IN
       IF ~expandedBase.ok THEN [fs |-> f, result |-> RemoveResult(FALSE, "Could not determine home directory")]
       ELSE IF Exists(f, Join(expandedBase.v, skillName))
       THEN [fs |-> RemoveRecursive(f, Join(expandedBase.v, skillName)), result |-> RemoveResult(TRUE, "")]
       ELSE [fs |-> f, result |-> RemoveResult(FALSE, "Skill not found")]

----------------------------------------------------------------------------
(* Link registry (linker.ts) *)

LINK_REGISTRY_VERSION == <<"1", ".", "0", ".", "0">>

LINK_REGISTRY_PATHS_claude_user == <<"~", "/", ".", "c", "l", "a", "u", "d", "e", "/", "s", "k", "i", "l", "l", "-", "l", "i", "n", "k", "s", ".", "j", "s", "o", "n">>

LINK_REGISTRY_PATHS_claude_project == <<".", "c", "l", "a", "u", "d", "e", "/", "s", "k", "i", "l", "l", "-", "l", "i", "n", "k", "s", ".", "j", "s", "o", "n">>

LINK_REGISTRY_PATHS_codex_user == <<"~", "/", ".", "c", "o", "d", "e", "x", "/", "s", "k", "i", "l", "l", "-", "l", "i", "n", "k", "s", ".", "j", "s", "o", "n">>

LINK_REGISTRY_PATHS_codex_project == <<".", "c", "o", "d", "e", "x", "/", "s", "k", "i", "l", "l", "-", "l", "i", "n", "k", "s", ".", "j", "s", "o", "n">>

LINK_REGISTRY_PATHS_cursor_user == <<"~", "/", ".", "c", "u", "r", "s", "o", "r", "/", "s", "k", "i", "l", "l", "-", "l", "i", "n", "k", "s", ".", "j", "s", "o", "n">>

LINK_REGISTRY_PATHS_cursor_project == <<".", "c", "u", "r", "s", "o", "r", "/", "s", "k", "i", "l", "l", "-", "l", "i", "n", "k", "s", ".", "j", "s", "o", "n">>

HTTP == <<"h", "t", "t", "p", ":", "/", "/">>

HTTPS == <<"h", "t", "t", "p", "s", ":", "/", "/">>

\* options.userLevel ?? true
UserLevel(options) == IF options.userLevel.def THEN options.userLevel.v ELSE TRUE

\* getLinkRegistryPath(target, userLevel)
getLinkRegistryPath(target, userLevel, h) ==
  LET relativePath ==
        CASE target = "claude" -> IF userLevel THEN LINK_REGISTRY_PATHS_claude_user ELSE LINK_REGISTRY_PATHS_claude_project
          [] target = "codex" -> IF userLevel THEN LINK_REGISTRY_PATHS_codex_user ELSE LINK_REGISTRY_PATHS_codex_project
          [] target = "cursor" -> IF userLevel THEN LINK_REGISTRY_PATHS_cursor_user ELSE LINK_REGISTRY_PATHS_cursor_project
  IN ExpandHome(relativePath, h)

EmptyRegistry == [version |-> LINK_REGISTRY_VERSION, links |-> <<>>]

\* as readLinkRegistry, taking a file without a links array for an empty registry
readLinkRegistry_LenientLinks(f, h, target, userLevel) ==
  LET registryPath == getLinkRegistryPath(target, userLevel, h) IN
  IF ~registryPath.ok THEN [fs |-> f, ok |-> FALSE, err |-> "Could not determine home directory", registry |-> EmptyRegistry]
  ELSE IF ~Exists(f, registryPath.v) THEN [fs |-> f, ok |-> TRUE, err |-> "", registry |-> EmptyRegistry]
  ELSE IF f[Abs(registryPath.v)].kind # "file" THEN [fs |-> f, ok |-> FALSE, err |-> "IsADirectory", registry |-> EmptyRegistry]
  ELSE LET doc == f[Abs(registryPath.v)].json IN
       IF ~doc.ok THEN [fs |-> f, ok |-> FALSE, err |-> "SyntaxError", registry |-> EmptyRegistry]
       ELSE IF doc.version = <<>> THEN [fs |-> f, ok |-> FALSE, err |-> "Invalid registry format", registry |-> EmptyRegistry]
       ELSE [fs |-> f, ok |-> TRUE, err |-> "", registry |-> [version |-> doc.version, links |-> IF doc.isArr THEN doc.links ELSE <<>>]]

\* readLinkRegistry(target, userLevel): the registry, or the error raised.
\* A file that is not found gives the empty registry; nothing is written.
readLinkRegistry(f, h, target, userLevel) ==
  LET registryPath == getLinkRegistryPath(target, userLevel, h) IN
  IF ~registryPath.ok THEN [fs |-> f, ok |-> FALSE, err |-> "Could not determine home directory", registry |-> EmptyRegistry]
  ELSE IF ~Exists(f, registryPath.v) THEN [fs |-> f, ok |-> TRUE, err |-> "", registry |-> EmptyRegistry]
  ELSE IF f[Abs(registryPath.v)].kind # "file" THEN [fs |-> f, ok |-> FALSE, err |-> "IsADirectory", registry |-> EmptyRegistry]
  ELSE LET doc == f[Abs(registryPath.v)].json IN
       IF ~doc.ok THEN [fs |-> f, ok |-> FALSE, err |-> "SyntaxError", registry |-> EmptyRegistry]
       ELSE IF doc.version = <<>> \/ ~doc.isArr THEN [fs |-> f, ok |-> FALSE, err |-> "Invalid registry format", registry |-> EmptyRegistry]
       ELSE [fs |-> f, ok |-> TRUE, err |-> "", registry |-> [version |-> doc.version, links |-> doc.links]]

LastSlash(p) == CHOOSE i \in 1..Len(p) : p[i] = "/" /\ \A j \in (i + 1)..Len(p) : p[j] # "/"

\* writeLinkRegistry(target, userLevel, registry), called after a read that
\* resolved the same path: mkdir of the file's directory, then the whole
\* document is written
writeLinkRegistry(f, h, target, userLevel, registry) ==
  LET registryPath == getLinkRegistryPath(target, userLevel, h).v
      dir == SubSeq(registryPath, 1, LastSlash(registryPath) - 1)
  IN WriteNode(MkdirP(f, dir), registryPath,
               JsonFile([ok |-> TRUE, version |-> registry.version, isArr |-> TRUE, links |-> registry.links]))

\* detectLinkType(source)
detectLinkType(source) ==
  IF StartsWith(source, HTTP) \/ StartsWith(source, HTTPS)
  THEN IF Includes(source, <<"g", "i", "t", "h", "u", "b", ".", "c", "o", "m">>) \/ EndsWith(source, <<".", "g", "i", "t">>)
       THEN "git" ELSE "web"
  ELSE "local"

Invalid(error) == [valid |-> FALSE, raised |-> FALSE, error |-> error]

\* as validateLink, accepting every link
validateLink_AcceptsAll(f, h, link) == [valid |-> TRUE, raised |-> FALSE, error |-> ""]

\* validateLink(link); raised marks the error expandHome raises outside the
\* function's own try block
validateLink(f, h, link) ==
  IF ~NameRegexTest(link.name) THEN Invalid("Link name must contain only lowercase letters, numbers, and hyphens")
  ELSE IF link.type = "local"
  THEN LET sourcePath == ExpandHome(link.source, h) IN
       IF ~sourcePath.ok THEN [valid |-> FALSE, raised |-> TRUE, error |-> "Could not determine home directory"]
       ELSE IF ~Exists(f, sourcePath.v) THEN Invalid("Cannot access source")
       ELSE IF ~IsDirectory(f, sourcePath.v) THEN Invalid("Local source must be a directory")
       ELSE IF ~validateSkillDir(f, sourcePath.v).valid THEN Invalid("Invalid skill directory")
       ELSE [valid |-> TRUE, raised |-> FALSE, error |-> ""]
  ELSE IF link.type = "git"
  THEN IF ~StartsWith(link.source, HTTP) /\ ~StartsWith(link.source, HTTPS) /\ ~StartsWith(link.source, <<"g", "i", "t", "@">>)
       THEN Invalid("Git source must be a valid URL or SSH address")
       ELSE [valid |-> TRUE, raised |-> FALSE, error |-> ""]
  ELSE IF link.type = "web"
  THEN IF ~StartsWith(link.source, HTTP) /\ ~StartsWith(link.source, HTTPS)
       THEN Invalid("Web source must be a valid HTTP(S) URL")
       ELSE [valid |-> TRUE, raised |-> FALSE, error |-> ""]
  ELSE [valid |-> TRUE, raised |-> FALSE, error |-> ""]

\* findIndex((l) => l.name === name): 0 stands for -1
FindIndex(links, name) ==
  IF \E i \in 1..Len(links) : links[i].name = name
  THEN CHOOSE i \in 1..Len(links) : links[i].name = name /\ \A j \in 1..(i - 1) : links[j].name # name
  ELSE 0

LinkResult(success, link, error) == [success |-> success, link |-> link, error |-> error]

\* the link addLink builds from its arguments
NewLink(name, source, linkOptions) ==
  [name |-> name,
   type |-> IF linkOptions.type.def THEN linkOptions.type.v ELSE detectLinkType(source),
   source |-> source,
   path |-> linkOptions.path,
   branch |-> linkOptions.branch,
   enabled |-> IF linkOptions.enabled.def THEN linkOptions.enabled.v ELSE TRUE,
   description |-> linkOptions.description]

\* as addLink, always appending the new link
addLink_AlwaysAppends(f, h, name, source, options, linkOptions) ==
  LET r == readLinkRegistry(f, h, options.target, UserLevel(options)) IN
  IF ~r.ok THEN [fs |-> r.fs, result |-> LinkResult(FALSE, Undef, r.err)]
  ELSE LET link == NewLink(name, source, linkOptions)
           validation == validateLink(r.fs, h, link)
       IN IF ~validation.valid THEN [fs |-> r.fs, result |-> LinkResult(FALSE, Undef, validation.error)]
          ELSE [fs |-> writeLinkRegistry(r.fs, h, options.target, UserLevel(options), [r.registry EXCEPT !.links = Append(@, link)]),
                result |-> LinkResult(TRUE, Some(link), "")]

\* as addLink, replacing an existing entry by removing it and appending the new one
addLink_ReplaceMovesToEnd(f, h, name, source, options, linkOptions) ==
  LET r == readLinkRegistry(f, h, options.target, UserLevel(options)) IN
  IF ~r.ok THEN [fs |-> r.fs, result |-> LinkResult(FALSE, Undef, r.err)]
  ELSE LET registry == r.registry
           existingIndex == FindIndex(registry.links, name)
       IN
       IF existingIndex >= 1 /\ ~options.force
       THEN [fs |-> r.fs, result |-> LinkResult(FALSE, Undef, "Link already exists. Use --force to overwrite.")]
       ELSE LET link == NewLink(name, source, linkOptions)
                validation == validateLink(r.fs, h, link)
            IN IF ~validation.valid THEN [fs |-> r.fs, result |-> LinkResult(FALSE, Undef, validation.error)]
               ELSE LET links == Append(SelectSeq(registry.links, LAMBDA l : l.name # name), link)
                    IN [fs |-> writeLinkRegistry(r.fs, h, options.target, UserLevel(options), [registry EXCEPT !.links = links]),
                        result |-> LinkResult(TRUE, Some(link), "")]

\* as addLink, a replaced link keeping its enabled flag unless the call
\* supplies one
addLink_ReplaceKeepsEnabled(f, h, name, source, options, linkOptions) ==
  LET r == readLinkRegistry(f, h, options.target, UserLevel(options)) IN
  IF ~r.ok THEN [fs |-> r.fs, result |-> LinkResult(FALSE, Undef, r.err)]
  ELSE LET registry == r.registry
           existingIndex == FindIndex(registry.links, name)
       IN
       IF existingIndex >= 1 /\ ~options.force
       THEN [fs |-> r.fs, result |-> LinkResult(FALSE, Undef, "Link already exists. Use --force to overwrite.")]
       ELSE LET built == NewLink(name, source, linkOptions)
                link == IF existingIndex >= 1 /\ ~linkOptions.enabled.def
                        THEN [built EXCEPT !.enabled = registry.links[existingIndex].enabled]
                        ELSE built
                validation == validateLink(r.fs, h, link)
            IN IF ~validation.valid THEN [fs |-> r.fs, result |-> LinkResult(FALSE, Undef, validation.error)]
               ELSE LET links == IF existingIndex >= 1 THEN [registry.links EXCEPT ![existingIndex] = link]
                                 ELSE Append(registry.links, link)
                    IN [fs |-> writeLinkRegistry(r.fs, h, options.target, UserLevel(options), [registry EXCEPT !.links = links]),
                        result |-> LinkResult(TRUE, Some(link), "")]

\* addLink(name, source, options, linkOptions)
addLink(f, h, name, source, options, linkOptions) ==
  LET r == readLinkRegistry(f, h, options.target, UserLevel(options)) IN
  IF ~r.ok THEN [fs |-> r.fs, result |-> LinkResult(FALSE, Undef, r.err)]
  ELSE LET registry == r.registry
           existingIndex == FindIndex(registry.links, name)
       IN
       IF existingIndex >= 1 /\ ~options.force
       THEN [fs |-> r.fs, result |-> LinkResult(FALSE, Undef, "Link already exists. Use --force to overwrite.")]
       ELSE LET link == NewLink(name, source, linkOptions)
                validation == validateLink(r.fs, h, link)
            IN IF ~validation.valid THEN [fs |-> r.fs, result |-> LinkResult(FALSE, Undef, validation.error)]
               ELSE LET links == IF existingIndex >= 1 THEN [registry.links EXCEPT ![existingIndex] = link]
                                 ELSE Append(registry.links, link)
                    IN [fs |-> writeLinkRegistry(r.fs, h, options.target, UserLevel(options), [registry EXCEPT !.links = links]),
                        result |-> LinkResult(TRUE, Some(link), "")]

\* splice(index, 1)
Splice1(links, index) == SubSeq(links, 1, index - 1) \o SubSeq(links, index + 1, Len(links))

\* removeLink(name, options)
removeLink(f, h, name, options) ==
  LET r == readLinkRegistry(f, h, options.target, UserLevel(options)) IN
  IF ~r.ok THEN [fs |-> r.fs, result |-> LinkResult(FALSE, Undef, r.err)]
  ELSE LET index == FindIndex(r.registry.links, name) IN
       IF index < 1 THEN [fs |-> r.fs, result |-> LinkResult(FALSE, Undef, "Link not found")]
       ELSE [fs |-> writeLinkRegistry(r.fs, h, options.target, UserLevel(options),
                                      [r.registry EXCEPT !.links = Splice1(@, index)]),
             result |-> LinkResult(TRUE, Some(r.registry.links[index]), "")]

\* listLinks(options): raises when the read raises
listLinks(f, h, options) ==
  LET r == readLinkRegistry(f, h, options.target, UserLevel(options)) IN
  [fs |-> r.fs, threw |-> ~r.ok, error |-> r.err, links |-> r.registry.links]

\* as toggleLink, turning the flag over instead of setting it
toggleLink_Flips(f, h, name, enabled, options) ==
  LET r == readLinkRegistry(f, h, options.target, UserLevel(options)) IN
  IF ~r.ok THEN [fs |-> r.fs, result |-> LinkResult(FALSE, Undef, r.err)]
  ELSE LET index == FindIndex(r.registry.links, name) IN
       IF index < 1 THEN [fs |-> r.fs, result |-> LinkResult(FALSE, Undef, "Link not found")]
       ELSE LET link == [r.registry.links[index] EXCEPT !.enabled = ~@]
            IN [fs |-> writeLinkRegistry(r.fs, h, options.target, UserLevel(options),
                                         [r.registry EXCEPT !.links[index] = link]),
                result |-> LinkResult(TRUE, Some(link), "")]

\* toggleLink(name, enabled, options)
toggleLink(f, h, name, enabled, options) ==
  LET r == readLinkRegistry(f, h, options.target, UserLevel(options)) IN
  IF ~r.ok THEN [fs |-> r.fs, result |-> LinkResult(FALSE, Undef, r.err)]
  ELSE LET index == FindIndex(r.registry.links, name) IN
       IF index < 1 THEN [fs |-> r.fs, result |-> LinkResult(FALSE, Undef, "Link not found")]
       ELSE LET link == [r.registry.links[index] EXCEPT !.enabled = enabled]
            IN [fs |-> writeLinkRegistry(r.fs, h, options.target, UserLevel(options),
                                         [r.registry EXCEPT !.links[index] = link]),
                result |-> LinkResult(TRUE, Some(link), "")]

----------------------------------------------------------------------------
(* Link synchronizer (linker.ts syncLink) *)

TempPrefix == <<"/", "t", "m", "p", "/", "s", "k", "i", "l", "l", "-", "l", "i", "n", "k", "-">>

TempSuffix == <<"1", "2", "3", "4", "5", "6", "7", "8", "9">>

\* the names Deno.makeTempDir({ prefix: "skill-link-" }) can return here
TempDirs == {TempPrefix \o <<TempSuffix[i]>> : i \in 1..MaxTemps}

\* what a successful git clone leaves in the directory it is given
RepoTree(repo) ==
  CASE repo = "skill" -> <<"/">> \o SKILL_MD :> TextFile(<<FENCE, <<"n", "a", "m", "e", ":", " ", "a">>, <<"d", "e", "s", "c", "r", "i", "p", "t", "i", "o", "n", ":", " ", "g">>, FENCE, <<"c">> >>)
    [] repo = "nested" -> <<"/", "s">> :> DirNode
                          @@ (<<"/", "s", "/">> \o SKILL_MD) :> TextFile(<<FENCE, <<"n", "a", "m", "e", ":", " ", "a">>, <<"d", "e", "s", "c", "r", "i", "p", "t", "i", "o", "n", ":", " ", "n">>, FENCE, <<"c">> >>)
                          @@ <<"/", "R">> :> TextFile(<< <<"r">> >>)
    [] repo = "bare" -> <<"/", "R">> :> TextFile(<< <<"r">> >>)

CloneInto(f, tempDir, repo) ==
  LET tree == RepoTree(repo)
      new == {tempDir \o q : q \in DOMAIN tree}
  IN [r \in (DOMAIN f) \cup new |-> IF r \in new THEN tree[SubSeq(r, Len(tempDir) + 1, Len(r))] ELSE f[r]]

SyncResult(link, success, deployResults, error) ==
  [link |-> link, success |-> success, deployResults |-> deployResults, error |-> error]

\* branchArg is the value of the --branch argument of the git clone, when
\* the command line has one
NoEffects == [tempDir |-> Undef, cloned |-> FALSE, branchArg |-> Undef, deployed |-> FALSE, deployOptions |-> Undef, skillDir |-> Undef]

\* as SyncDeployOptions, overwriting whatever the caller asked
SyncDeployOptions_AlwaysForce(options) ==
  [targets |-> <<options.target>>, force |-> TRUE, dryRun |-> FALSE,
   projectPath |-> IF options.userLevel.def /\ options.userLevel.v THEN Undef ELSE Some(CWD)]

\* the deployOptions syncLink builds
SyncDeployOptions(options) ==
  [targets |-> <<options.target>>, force |-> options.force, dryRun |-> FALSE,
   projectPath |-> IF options.userLevel.def /\ options.userLevel.v THEN Undef ELSE Some(CWD)]

\* the end of syncLink once deploySkill has returned or raised d: the finally
\* block removes skillDir when cleanup is set, then the result is built
SyncFinish(d, link, skillDir, cleanup, eff) ==
  [fs |-> IF cleanup THEN RemoveRecursive(d.fs, skillDir) ELSE d.fs,
   result |-> IF d.threw THEN SyncResult(Undef, FALSE, <<>>, d.error)
              ELSE SyncResult(Some(link), \A i \in 1..Len(d.results) : d.results[i].success, d.results, ""),
   effects |-> eff]

\* the deployment step of syncLink
SyncDeploy(f, h, link, options, skillDir, cleanup, eff) ==
  SyncFinish(deploySkill(f, h, skillDir, SyncDeployOptions(options)), link, skillDir, cleanup,
             [eff EXCEPT !.deployed = TRUE, !.deployOptions = Some(SyncDeployOptions(options)), !.skillDir = Some(skillDir)])

\* step 2 of syncLink succeeded: the directory to deploy from, and whether
\* the finally block has something to remove
Prepared(f, skillDir, cleanup, eff) ==
  [ok |-> TRUE, fs |-> f, skillDir |-> skillDir, cleanup |-> cleanup, effects |-> eff,
   result |-> SyncResult(Undef, FALSE, <<>>, "")]

\* step 2 of syncLink returned early with result
Refused(f, result, eff) ==
  [ok |-> FALSE, fs |-> f, skillDir |-> <<>>, cleanup |-> FALSE, effects |-> eff, result |-> result]

\* a local link: the stored path with the home directory expanded
SyncLocal(f, skillDir) ==
  IF ~skillDir.ok THEN Refused(f, SyncResult(Undef, FALSE, <<>>, "Could not determine home directory"), NoEffects)
  ELSE Prepared(f, skillDir.v, FALSE, NoEffects)

\* as SyncGit, without the removal of the temporary directory in the catch
SyncGit_KeepsTempDir(f1, link, tempDir, clone, eff) ==
  IF clone = "fail"
  THEN Refused(f1, SyncResult(Undef, FALSE, <<>>, "Git clone failed"), eff)
  ELSE Prepared(CloneInto(f1, tempDir, clone),
                IF link.path.def /\ link.path.v # <<>> THEN tempDir \o <<"/">> \o link.path.v ELSE tempDir,
                TRUE, eff)

\* a git link, f1 being the filesystem with the temporary directory made:
\* tempDir is the name Deno.makeTempDir returned and clone the outcome of
\* the git clone
SyncGit(f1, link, tempDir, clone, eff) ==
  IF clone = "fail"
  THEN Refused(RemoveRecursive(f1, tempDir), SyncResult(Undef, FALSE, <<>>, "Git clone failed"), eff)
  ELSE Prepared(CloneInto(f1, tempDir, clone),
                IF link.path.def /\ link.path.v # <<>> THEN tempDir \o <<"/">> \o link.path.v ELSE tempDir,
                TRUE, eff)

\* step 2 of syncLink, for a link that was found and is enabled
SyncMaterialize(f, h, link, tempDir, clone) ==
  IF link.type = "local" THEN SyncLocal(f, ExpandHome(link.source, h))
  ELSE IF link.type = "git"
  THEN SyncGit(MkdirP(f, tempDir), link, tempDir, clone,
               [NoEffects EXCEPT !.tempDir = Some(tempDir), !.cloned = TRUE,
                                 !.branchArg = IF link.branch.def /\ link.branch.v # <<>> THEN link.branch ELSE Undef])
  ELSE IF link.type = "web"
  THEN Refused(f, SyncResult(Some(link), FALSE, <<>>, "Web links are not yet supported for syncing"), NoEffects)
  ELSE Refused(f, SyncResult(Some(link), FALSE, <<>>, "Unknown link type"), NoEffects)

\* steps 2 and 3 of syncLink, m being what step 2 left
SyncRun(m, h, link, options) ==
  IF ~m.ok THEN [fs |-> m.fs, result |-> m.result, effects |-> m.effects]
  ELSE SyncDeploy(m.fs, h, link, options, m.skillDir, m.cleanup, m.effects)

\* as SyncFound, with the enabled check skipped when force is set
SyncFound_ForceSyncsDisabled(f, h, link, options, tempDir, clone) ==
  IF ~link.enabled /\ ~options.force
  THEN [fs |-> f, result |-> SyncResult(Some(link), FALSE, <<>>, "Link is disabled"), effects |-> NoEffects]
  ELSE SyncRun(SyncMaterialize(f, h, link, tempDir, clone), h, link, options)

\* syncLink for the link found in the registry: the enabled check
SyncFound(f, h, link, options, tempDir, clone) ==
  IF ~link.enabled
  THEN [fs |-> f, result |-> SyncResult(Some(link), FALSE, <<>>, "Link is disabled"), effects |-> NoEffects]
  ELSE SyncRun(SyncMaterialize(f, h, link, tempDir, clone), h, link, options)

\* syncLink once the registry has been read (r) and searched (index)
SyncLookup(r, index, h, name, options, tempDir, clone) ==
  IF ~r.ok THEN [fs |-> r.fs, result |-> SyncResult(Undef, FALSE, <<>>, r.err), effects |-> NoEffects]
  ELSE IF index < 1 THEN [fs |-> r.fs, result |-> SyncResult(Undef, FALSE, <<>>, "Link not found"), effects |-> NoEffects]
  ELSE SyncFound(r.fs, h, r.registry.links[index], options, tempDir, clone)

\* syncLink(name, options)
syncLink(f, h, name, options, tempDir, clone) ==
  SyncLookup(readLinkRegistry(f, h, options.target, UserLevel(options)),
             FindIndex(readLinkRegistry(f, h, options.target, UserLevel(options)).registry.links, name),
             h, name, options, tempDir, clone)

\* the temporary names that are free in f
FreeTemps(f) == {i \in 1..MaxTemps : TempPrefix \o <<TempSuffix[i]>> \notin DOMAIN f}

\* a name Deno.makeTempDir returns in f
NextTemp(f) == TempPrefix \o <<TempSuffix[CHOOSE i \in FreeTemps(f) : \A j \in FreeTemps(f) : i <= j]>>

RECURSIVE SyncAllLoop(_, _, _, _, _, _, _)

\* as SyncAllStep, leaving the loop when a sync fails
SyncAllStep_StopsAtFailure(r, f, h, links, options, clones, i, steps) ==
  IF ~r.result.success
  THEN [fs |-> r.fs, steps |-> Append(steps, [name |-> links[i].name, pre |-> f, ret |-> r])]
  ELSE SyncAllLoop(r.fs, h, links, options, clones, i + 1,
                   Append(steps, [name |-> links[i].name, pre |-> f, ret |-> r]))

\* the end of one turn of the loop of syncAllLinks, r being what syncLink
\* returned for links[i]: results.push(result), then the next link
SyncAllStep(r, f, h, links, options, clones, i, steps) ==
  SyncAllLoop(r.fs, h, links, options, clones, i + 1,
              Append(steps, [name |-> links[i].name, pre |-> f, ret |-> r]))

\* the loop of syncAllLinks over links[i..], the links read before the loop;
\* clones[i] is the outcome of the git clone a sync of links[i] runs
SyncAllLoop(f, h, links, options, clones, i, steps) ==
  IF i > Len(links) THEN [fs |-> f, steps |-> steps]
  ELSE IF ~links[i].enabled THEN SyncAllLoop(f, h, links, options, clones, i + 1, steps)
  ELSE SyncAllStep(syncLink(f, h, links[i].name, options, NextTemp(f), clones[i]),
                   f, h, links, options, clones, i, steps)

\* what syncAllLinks returns once its loop l has ended
SyncAllResults(l) ==
  [threw |-> FALSE, error |-> "", fs |-> l.fs, steps |-> l.steps,
   results |-> [j \in 1..Len(l.steps) |-> l.steps[j].ret.result]]

\* syncAllLinks once the registry has been read (r)
SyncAllRead(r, h, options, clones) ==
  IF ~r.ok THEN [threw |-> TRUE, error |-> r.err, fs |-> r.fs, steps |-> <<>>, results |-> <<>>]
  ELSE SyncAllResults(SyncAllLoop(r.fs, h, r.registry.links, options, clones, 1, <<>>))

\* syncAllLinks(options)
syncAllLinks(f, h, options, clones) ==
  SyncAllRead(readLinkRegistry(f, h, options.target, UserLevel(options)), h, options, clones)

----------------------------------------------------------------------------
(* Batch deployment (utils.ts discoverSkills, batchDeploySkills) *)

\* the characters of the paths used here, by increasing UTF-16 code unit
CodeUnits ==
  <<" ", "#", "-", ".", "/", "0", "1", "2", "3", "4", "5", "6", "7", "8", "9", ":", "@",
    "A", "B", "C", "D", "E", "F", "G", "H", "I", "J", "K", "L", "M", "N", "O", "P", "Q", "R", "S", "T", "U", "V", "W", "X", "Y", "Z",
    "_", "a", "b", "c", "d", "e", "f", "g", "h", "i", "j", "k", "l", "m", "n", "o", "p", "q", "r", "s", "t", "u", "v", "w", "x", "y", "z", "~">>

Ord(c) == CHOOSE i \in 1..Len(CodeUnits) : CodeUnits[i] = c

\* a < b as Array.prototype.sort compares two strings
RECURSIVE StrLess(_, _)
StrLess(a, b) ==
  IF b = <<>> THEN FALSE
  ELSE IF a = <<>> THEN TRUE
  ELSE IF Head(a) = Head(b) THEN StrLess(Tail(a), Tail(b))
  ELSE Ord(Head(a)) < Ord(Head(b))

\* skills.sort() on the paths collected in S
RECURSIVE Sort(_)
Sort(S) ==
  IF S = {} THEN <<>>
  ELSE LET m == CHOOSE x \in S : \A y \in S \ {x} : StrLess(x, y)
       IN <<m>> \o Sort(S \ {m})

\* as Sort, largest first
RECURSIVE SortDescending(_)
SortDescending(S) ==
  IF S = {} THEN <<>>
  ELSE LET m == CHOOSE x \in S : \A y \in S \ {x} : StrLess(y, x)
       IN <<m>> \o SortDescending(S \ {m})

\* Deno.readDir(path): the entries directly below the absolute path p
ReadDir(f, p) ==
  {q \in DOMAIN f : IsUnder(q, p) /\ \A i \in (Len(p) + 2)..Len(q) : q[i] # "/"}

\* findSkillFile(dir)
findSkillFile(f, dir) ==
  IF Exists(f, Join(dir, SKILL_MD)) THEN Some(Join(dir, SKILL_MD)) ELSE Undef

\* as discoverSkills, returning the directories in the opposite order
discoverSkills_Descending(f, parentDir) ==
  IF ~Exists(f, parentDir) THEN [ok |-> FALSE, err |-> "Directory not found", skills |-> <<>>]
  ELSE IF ~IsDirectory(f, parentDir) THEN [ok |-> FALSE, err |-> "NotADirectory", skills |-> <<>>]
  ELSE [ok |-> TRUE, err |-> "",
        skills |-> SortDescending({q \in ReadDir(f, Abs(parentDir)) : f[q].kind = "dir" /\ findSkillFile(f, q).def})]

\* as discoverSkills, taking a missing directory for an empty one
discoverSkills_MissingIsEmpty(f, parentDir) ==
  IF ~Exists(f, parentDir) THEN [ok |-> TRUE, err |-> "", skills |-> <<>>]
  ELSE IF ~IsDirectory(f, parentDir) THEN [ok |-> FALSE, err |-> "NotADirectory", skills |-> <<>>]
  ELSE [ok |-> TRUE, err |-> "",
        skills |-> Sort({q \in ReadDir(f, Abs(parentDir)) : f[q].kind = "dir" /\ findSkillFile(f, q).def})]

\* discoverSkills(parentDir): the subdirectories that hold a manifest, sorted;
\* raises when parentDir does not exist or cannot be listed
discoverSkills(f, parentDir) ==
  IF ~Exists(f, parentDir) THEN [ok |-> FALSE, err |-> "Directory not found", skills |-> <<>>]
  ELSE IF ~IsDirectory(f, parentDir) THEN [ok |-> FALSE, err |-> "NotADirectory", skills |-> <<>>]
  ELSE [ok |-> TRUE, err |-> "",
        skills |-> Sort({q \in ReadDir(f, Abs(parentDir)) : f[q].kind = "dir" /\ findSkillFile(f, q).def})]

Basename(p) == SubSeq(p, LastSlash(p) + 1, Len(p))

\* one entry of the list batchDeploySkills returns
BatchEntry(skillDir, results, validationError) ==
  [skillName |-> Basename(skillDir), skillDir |-> skillDir, results |-> results, validationError |-> validationError]

RECURSIVE BatchLoop(_, _, _, _, _, _)

\* the turn of skills[i] once deploySkill has returned or raised d
BatchDeployed(d, f, h, skills, options, i, steps) ==
  IF d.threw THEN [threw |-> TRUE, error |-> d.error, fs |-> d.fs, steps |-> steps]
  ELSE BatchLoop(d.fs, h, skills, options, i + 1,
                 Append(steps, [entry |-> BatchEntry(skills[i], d.results, Undef),
                                pre |-> f, post |-> d.fs, deployed |-> TRUE]))

\* the turn of skills[i] once the validator has returned v
BatchValidated(v, f, h, skills, options, i, steps) ==
  IF ~v.valid
  THEN BatchLoop(f, h, skills, options, i + 1,
                 Append(steps, [entry |-> BatchEntry(skills[i], <<>>, Some(v.errors)),
                                pre |-> f, post |-> f, deployed |-> FALSE]))
  ELSE BatchDeployed(deploySkill(f, h, skills[i], options), f, h, skills, options, i, steps)

\* the loop of batchDeploySkills over skills[i..]
BatchLoop(f, h, skills, options, i, steps) ==
  IF i > Len(skills) THEN [threw |-> FALSE, error |-> "", fs |-> f, steps |-> steps]
  ELSE BatchValidated(validateSkillDir(f, skills[i]), f, h, skills, options, i, steps)

\* what batchDeploySkills returns once its loop l has ended
BatchResults(l) ==
  [threw |-> l.threw, error |-> l.error, fs |-> l.fs, steps |-> l.steps,
   results |-> IF l.threw THEN <<>> ELSE [j \in 1..Len(l.steps) |-> l.steps[j].entry]]

\* batchDeploySkills once discoverSkills has returned or raised s
BatchDiscovered(s, f, h, options) ==
  IF ~s.ok THEN [threw |-> TRUE, error |-> s.err, fs |-> f, steps |-> <<>>, results |-> <<>>]
  ELSE IF s.skills = <<>> THEN [threw |-> TRUE, error |-> "No skills found", fs |-> f, steps |-> <<>>, results |-> <<>>]
  ELSE BatchResults(BatchLoop(f, h, s.skills, options, 1, <<>>))

\* batchDeploySkills(parentDir, options)
batchDeploySkills(f, h, parentDir, options) ==
  BatchDiscovered(discoverSkills(f, parentDir), f, h, options)

----------------------------------------------------------------------------
(* The skill directories the commands are run on *)

Line_name_a == <<"n", "a", "m", "e", ":", " ", "a">>

Line_name_bad == <<"n", "a", "m", "e", ":", " ", "A", "_">>

Line_desc_d == <<"d", "e", "s", "c", "r", "i", "p", "t", "i", "o", "n", ":", " ", "d">>

Line_desc_e == <<"d", "e", "s", "c", "r", "i", "p", "t", "i", "o", "n", ":", " ", "e">>

Line_rule == <<"#", "#", " ", "R", "u", "l", "e", ":", " ", "r">>

SkA == <<"/", "s", "a">>

SkB == <<"/", "s", "b">>

SkNoName == <<"/", "s", "u">>

SkNoManifest == <<"/", "s", "n">>

SkNoFence == <<"/", "s", "m">>

SkBadName == <<"/", "s", "i">>

PlainFile == <<"/", "s", "f">>

Missing == <<"/", "s", "z">>

PROJ == <<"/", "p">>

\* the filesystem before the first command: the home, working and project
\* directories and the source skills; nothing deployed, no registry
BaseFs ==
  LET dirs == {<<"/", "h">>, <<"/", "w">>, <<"/", "p">>, <<"/", "t", "m", "p">>, SkA, SkB, SkNoName, SkNoManifest, SkNoFence, SkBadName}
      files == (SkA \o <<"/">> \o SKILL_MD) :> TextFile(<<FENCE, Line_name_a, Line_desc_d, FENCE, <<>>, <<"x">>, <<>> >>)
            @@ (SkA \o <<"/", "r">>) :> TextFile(<< <<"1">> >>)
            @@ (SkB \o <<"/">> \o SKILL_MD) :> TextFile(<<FENCE, Line_name_a, Line_desc_e, <<"-", "-", "-", " ">>, Line_rule, <<"y">> >>)
            @@ (SkB \o <<"/", "q">>) :> TextFile(<< <<"2">> >>)
            @@ (SkNoName \o <<"/">> \o SKILL_MD) :> TextFile(<<FENCE, Line_desc_d, FENCE, <<"z">> >>)
            @@ (SkNoFence \o <<"/">> \o SKILL_MD) :> TextFile(<< <<"#", " ", "t">>, FENCE >>)
            @@ (SkBadName \o <<"/">> \o SKILL_MD) :> TextFile(<<FENCE, Line_name_bad, Line_desc_d, FENCE>>)
            @@ PlainFile :> TextFile(<< <<"f">> >>)
  IN [q \in dirs \cup DOMAIN files |-> IF q \in dirs THEN DirNode ELSE files[q]]

DeploySkillDirs == {SkA, SkB, SkNoName, SkNoManifest, SkNoFence}

RECURSIVE SeqsUpTo(_, _)
SeqsUpTo(S, n) == IF n = 0 THEN {<<>>} ELSE LET R == SeqsUpTo(S, n - 1) IN R \cup {Append(q, x) : q \in R, x \in S}

TargetLists == SeqsUpTo(DeployTarget, MaxTargets) \ {<<>>}

Idle == [op |-> "none"]

----------------------------------------------------------------------------
(* Commands.  A command runs from start to end in one process; last holds  *)
(* its arguments, the filesystem it started from and what it returned,     *)
(* until the process exits.                                                *)

Init ==
  /\ fs = BaseFs
  /\ home \in {Some(HOME), Undef}
  /\ last = Idle

\* deploy: deploySkill(skillDir, options)
Deploy ==
  /\ last.op = "none"
  /\ \E skillDir \in DeploySkillDirs, targets \in TargetLists, force \in BOOLEAN, dryRun \in BOOLEAN, projectPath \in {Undef, Some(PROJ)} :
       LET options == [targets |-> targets, force |-> force, dryRun |-> dryRun, projectPath |-> projectPath]
       IN /\ last' = [op |-> "deploy", skillDir |-> skillDir, options |-> options, pre |-> fs,
                      ret |-> deploySkill(fs, home, skillDir, options)]
          /\ fs' = last'.ret.fs
  /\ UNCHANGED home

\* the process of the command exits (Deno.exit after the results are printed)
Exit ==
  /\ last.op # "none"
  /\ last' = Idle
  /\ UNCHANGED <<fs, home>>

NextDeploy == Deploy \/ Exit

SpecDeploy == Init /\ [][NextDeploy]_vars

----------------------------------------------------------------------------
(* Properties of deploy *)

\* the name the manifest of skillDir declares
ManifestName(f, skillDir) == parseSkillFile(f, Join(skillDir, SKILL_MD)).metadata.name

\* the destination the documentation gives a target: user scope without a
\* project path, below the project path with one; cursor is one file
DocumentedDest(target, projectPath, name) ==
  IF target = "cursor" THEN TARGET_PATHS_cursor_project
  ELSE IF projectPath.def THEN Join(Join(projectPath.v, getTargetPath(target, FALSE)), name)
  ELSE Join(Join(HOME, SubSeq(getTargetPath(target, TRUE), 3, Len(getTargetPath(target, TRUE)))), name)

DeployReturned == last.op = "deploy" /\ ~last.ret.threw

Steps == last.ret.steps

\* step i of the last deploy met an existing destination without force
ConflictStep(i) ==
  /\ Steps[i].result.target \in {"claude", "codex"}
  /\ ~last.options.force
  /\ home.def
  /\ ManifestName(last.pre, last.skillDir).t = "str"
  /\ Exists(Steps[i].pre, DocumentedDest(Steps[i].result.target, last.options.projectPath, ManifestName(last.pre, last.skillDir).s))

\* C1: for claude and codex, when the destination exists and force is not
\* set, the outcome is a failure saying the skill already exists, and the
\* filesystem after that target's turn is the one before it
C1_ExistingWithoutForceFails ==
  DeployReturned =>
    \A i \in 1..Len(Steps) :
      ConflictStep(i) =>
        /\ ~Steps[i].result.success
        /\ Steps[i].result.error = "Skill already exists. Use --force to overwrite."
        /\ Steps[i].post = Steps[i].pre

C1_Witness ==
  /\ DeployReturned
  /\ ~last.options.dryRun
  /\ \E i \in 1..Len(Steps) : ConflictStep(i) /\ ~Steps[i].result.success
  /\ \E q \in DOMAIN fs : IsUnder(q, Join(HOME, <<".", "c", "l", "a", "u", "d", "e">>)) /\ fs[q].kind = "file"

\* C2: a dry run leaves every path of the filesystem as it was, for every
\* target, force value and state of the destination
C2_DryRunChangesNothing ==
  (last.op = "deploy" /\ last.options.dryRun) =>
    /\ fs = last.pre
    /\ \A i \in 1..Len(last.ret.steps) : last.ret.steps[i].post = last.ret.steps[i].pre

C2_Witness ==
  /\ DeployReturned
  /\ last.options.dryRun
  /\ last.options.force
  /\ \E i \in 1..Len(Steps) : Steps[i].result.target = "cursor" /\ Steps[i].result.success /\ Exists(Steps[i].pre, TARGET_PATHS_cursor_project)
  /\ \E i \in 1..Len(Steps) : Steps[i].result.target # "cursor" /\ Steps[i].result.success /\ Exists(Steps[i].pre, Steps[i].result.path.v)

\* what the same target's turn returns from the same filesystem without dryRun
RealRun(i) ==
  deployOne(Steps[i].pre, home, last.skillDir, Steps[i].result.target,
            ManifestName(last.pre, last.skillDir), [last.options EXCEPT !.dryRun = FALSE]).result

C4_ProjectPathHonoured ==
  (DeployReturned /\ home.def) =>
    \A i \in 1..Len(Steps) :
      Steps[i].result.success =>
        Abs(Steps[i].result.path.v) =
          Abs(DocumentedDest(Steps[i].result.target, last.options.projectPath, ManifestName(last.pre, last.skillDir).s))

\* C5: one outcome per requested target, in the order requested; every
\* target gets its turn, starting from the filesystem the turn before left
C5_OneOutcomePerTarget ==
  DeployReturned =>
    /\ Len(last.ret.results) = Len(last.options.targets)
    /\ \A i \in 1..Len(last.ret.results) :
         /\ last.ret.results[i].target = last.options.targets[i]
         /\ last.ret.results[i] = Steps[i].result
         /\ Steps[i].pre = (IF i = 1 THEN last.pre ELSE Steps[i - 1].post)
    /\ Len(Steps) > 0 => Steps[Len(Steps)].post = fs

C5_Witness ==
  /\ DeployReturned
  /\ Len(Steps) = 2
  /\ ~Steps[1].result.success
  /\ Steps[2].result.success
  /\ Steps[2].post # Steps[2].pre

----------------------------------------------------------------------------
(* Link commands *)

S_github == <<"h", "t", "t", "p", "s", ":", "/", "/", "g", "i", "t", "h", "u", "b", ".", "c", "o", "m", "/", "r">>

S_web == <<"h", "t", "t", "p", ":", "/", "/", "x", ".", "i", "o">>

S_ssh == <<"g", "i", "t", "@", "x", ".", "i", "o", ":", "r">>

S_ftp == <<"f", "t", "p", ":", "/", "/", "x">>

LinkOptions(scope, force) == [target |-> scope[1], userLevel |-> scope[2], force |-> force]

Details(type, path, enabled) == [type |-> type, path |-> path, branch |-> Undef, enabled |-> enabled, description |-> Undef]

\* the links the registry of a scope holds now (none when it cannot be read)
CurrentLinks(scope) == readLinkRegistry(fs, home, scope[1], IF scope[2].def THEN scope[2].v ELSE TRUE).registry.links

\* link add: addLink(name, source, options, linkOptions)
AddLinkWith(scopes, names, inputs) ==
  /\ last.op = "none"
  /\ \E scope \in scopes, name \in names, in \in inputs, force \in BOOLEAN :
       /\ Len(CurrentLinks(scope)) < MaxLinks
       /\ LET options == LinkOptions(scope, force)
              r == addLink(fs, home, name, in.source, options, in.linkOptions)
          IN /\ fs' = r.fs
             /\ last' = [op |-> "add", name |-> name, source |-> in.source, options |-> options,
                         linkOptions |-> in.linkOptions, pre |-> fs, ret |-> r]
  /\ UNCHANGED home

\* link remove: removeLink(name, options)
RemoveLinkWith(scopes, names) ==
  /\ last.op = "none"
  /\ \E scope \in scopes, name \in names :
       LET options == LinkOptions(scope, FALSE)
           r == removeLink(fs, home, name, options)
       IN /\ fs' = r.fs
          /\ last' = [op |-> "remove", name |-> name, options |-> options, pre |-> fs, ret |-> r]
  /\ UNCHANGED home

\* link enable / link disable: toggleLink(name, enabled, options)
ToggleLinkWith(scopes, names) ==
  /\ last.op = "none"
  /\ \E scope \in scopes, name \in names, enabled \in BOOLEAN :
       LET options == LinkOptions(scope, FALSE)
           r == toggleLink(fs, home, name, enabled, options)
       IN /\ fs' = r.fs
          /\ last' = [op |-> "toggle", name |-> name, enabled |-> enabled, options |-> options, pre |-> fs, ret |-> r]
  /\ UNCHANGED home

\* link list: listLinks(options)
ListLinksWith(scopes) ==
  /\ last.op = "none"
  /\ \E scope \in scopes :
       LET options == LinkOptions(scope, FALSE)
           r == listLinks(fs, home, options)
       IN /\ fs' = r.fs
          /\ last' = [op |-> "list", options |-> options, pre |-> fs, ret |-> r,
                      read |-> readLinkRegistry(fs, home, options.target, UserLevel(options))]
  /\ UNCHANGED home

\* link sync: syncLink(name, options); a temporary directory name must be
\* free for Deno.makeTempDir to return
SyncLinkWith(scopes, names) ==
  /\ last.op = "none"
  /\ \E scope \in scopes, name \in names, force \in BOOLEAN, tempDir \in TempDirs, clone \in {"fail", "skill", "nested", "bare"} :
       /\ tempDir \notin DOMAIN fs
       /\ LET options == LinkOptions(scope, force)
          IN /\ last' = [op |-> "sync", name |-> name, options |-> options, clone |-> clone, pre |-> fs,
                         ret |-> syncLink(fs, home, name, options, tempDir, clone)]
             /\ fs' = last'.ret.fs
  /\ UNCHANGED home

----------------------------------------------------------------------------
(* The registry commands on one registry file *)

RegistryScopes == {<<"claude", Undef>>}

RegistryNames == {<<"x">>, <<"y", "-", "1">>, <<"X">>, <<>>}

RegistrySources == {SkA, SkBadName, SkNoManifest, PlainFile, Missing, S_github, S_web, S_ssh, S_ftp}

RegistryInputs ==
  {[source |-> src, linkOptions |-> Details(type, Undef, enabled)] :
     src \in RegistrySources, type \in {Undef, Some("local"), Some("git"), Some("web")}, enabled \in {Undef, Some(FALSE)}}

\* registry files that were not written by this program
ForeignDocs ==
  {[ok |-> FALSE, version |-> <<>>, isArr |-> FALSE, links |-> <<>>],
   [ok |-> TRUE, version |-> <<>>, isArr |-> TRUE, links |-> <<>>],
   [ok |-> TRUE, version |-> LINK_REGISTRY_VERSION, isArr |-> FALSE, links |-> <<>>]}

RegistryFile(scope) == getLinkRegistryPath(scope[1], IF scope[2].def THEN scope[2].v ELSE TRUE, Some(HOME)).v

InitLink ==
  /\ home \in {Some(HOME), Undef}
  /\ fs \in {BaseFs} \cup {WriteNode(MkdirP(BaseFs, SubSeq(RegistryFile(scope), 1, LastSlash(RegistryFile(scope)) - 1)),
                                      RegistryFile(scope), JsonFile(doc)) : scope \in RegistryScopes, doc \in ForeignDocs}
  /\ last = Idle

AddLink == AddLinkWith(RegistryScopes, RegistryNames, RegistryInputs)

RemoveLink == RemoveLinkWith(RegistryScopes, RegistryNames)

ToggleLink == ToggleLinkWith(RegistryScopes, RegistryNames)

ListLinks == ListLinksWith(RegistryScopes)

NextLink == AddLink \/ RemoveLink \/ ToggleLink \/ ListLinks \/ Exit

SpecLink == InitLink /\ [][NextLink]_vars

----------------------------------------------------------------------------
(* The registry and sync commands on one registry file *)

SyncScopes == {<<"codex", Some(FALSE)>>}

SyncNames == {<<"x">>, <<"y">>}

SyncInputs ==
  {[source |-> SkA, linkOptions |-> Details(Undef, Undef, Undef)],
   [source |-> S_github, linkOptions |-> Details(Undef, Undef, Undef)],
   [source |-> S_github, linkOptions |-> Details(Undef, Some(<<"s">>), Some(FALSE))],
   [source |-> S_web, linkOptions |-> Details(Undef, Undef, Undef)]}

InitSync ==
  /\ home = Some(HOME)
  /\ fs = BaseFs
  /\ last = Idle

SyncAdd == AddLinkWith(SyncScopes, SyncNames, SyncInputs)

SyncRemove == RemoveLinkWith(SyncScopes, SyncNames)

SyncToggle == ToggleLinkWith(SyncScopes, SyncNames)

SyncLink == SyncLinkWith(SyncScopes, SyncNames)

NextSync == SyncAdd \/ SyncRemove \/ SyncToggle \/ SyncLink \/ Exit

SpecSync == InitSync /\ [][NextSync]_vars

----------------------------------------------------------------------------
(* Validating a header *)

\* the string of n characters c
Repeat(c, n) == [i \in 1..n |-> c]

HeaderNames ==
  {VUndef, VNull, VStr(<<>>), VNum(<<"7">>), VStr(<<"a", "-", "1">>), VStr(<<"A", "_">>),
   VStr(<<"a", "\n", "b">>), VStr(Repeat("a", LIMITS_name)), VStr(Repeat("a", LIMITS_name + 1))}

HeaderDescriptions ==
  {VUndef, VNull, VNum(<<"7">>), VStr(<<"d">>), VStr(<<"d", "\n", "e">>),
   VStr(Repeat("d", LIMITS_description)), VStr(Repeat("d", LIMITS_description + 1))}

HeaderLists ==
  {VUndef, VNull, VStr(<<"x">>), VArr(<<>>), VArr(<<VStr(<<"x">>)>>), VArr(<<VStr(<<"x">>), VNum(<<"7">>), VNull>>)}

HeaderModels == {VUndef, VNull, VStr(<<"m">>), VNum(<<"7">>)}

Headers ==
  {[isNull |-> FALSE, name |-> n, description |-> d, allowedTools |-> t, model |-> m, skills |-> k] :
     n \in HeaderNames, d \in HeaderDescriptions, t \in HeaderLists, m \in HeaderModels,
     k \in {VUndef, VArr(<<VNum(<<"7">>), VNum(<<"8">>)>>), VStr(<<"x">>)}}

\* validate: validateMetadata(metadata)
Validate ==
  /\ last.op = "none"
  /\ \E md \in Headers :
       last' = [op |-> "validateMetadata", metadata |-> md, ret |-> validateMetadata(md)]
  /\ UNCHANGED <<fs, home>>

NextValidate == Validate \/ Exit

SpecValidate == InitSync /\ [][NextValidate]_vars

----------------------------------------------------------------------------
(* Deploying and removing a skill *)

RemoveNames == {<<"a">>, <<"b">>, <<>>}

\* deploy of one skill to one target: deploySkill(skillDir, options)
DeployOne ==
  /\ last.op = "none"
  /\ \E skillDir \in {SkA, SkB}, target \in DeployTarget, force \in BOOLEAN :
       LET options == [targets |-> <<target>>, force |-> force, dryRun |-> FALSE, projectPath |-> Undef]
       IN /\ last' = [op |-> "deploy", skillDir |-> skillDir, options |-> options, pre |-> fs,
                      ret |-> deploySkill(fs, home, skillDir, options)]
          /\ fs' = last'.ret.fs
  /\ UNCHANGED home

\* remove: removeSkill(name, target)
RemoveSkill ==
  /\ last.op = "none"
  /\ \E name \in RemoveNames, target \in DeployTarget :
       /\ last' = [op |-> "removeSkill", name |-> name, target |-> target, pre |-> fs,
                   ret |-> removeSkill(fs, home, name, target)]
       /\ fs' = last'.ret.fs
  /\ UNCHANGED home

NextRemove == DeployOne \/ RemoveSkill \/ Exit

SpecRemove == Init /\ [][NextRemove]_vars

----------------------------------------------------------------------------
(* Batch deployment of the skills below one directory *)

BatchDir == <<"/", "b">>

EmptyDir == <<"/", "e">>

NoSkillDir == <<"/", "n">>

\* BaseFs with a directory of skills (two that validate, one without a name,
\* one directory without a manifest, one file), an empty directory and a
\* directory without skills
BatchFs ==
  LET dirs == {BatchDir, BatchDir \o <<"/", "a">>, BatchDir \o <<"/", "a", "-", "c">>, BatchDir \o <<"/", "b">>,
               BatchDir \o <<"/", "d">>, EmptyDir, NoSkillDir, NoSkillDir \o <<"/", "d">>}
      files == (BatchDir \o <<"/", "a", "/">> \o SKILL_MD) :> TextFile(<<FENCE, Line_name_a, Line_desc_d, FENCE, <<"x">> >>)
            @@ (BatchDir \o <<"/", "a", "-", "c", "/">> \o SKILL_MD) :> TextFile(<<FENCE, Line_desc_d, FENCE, <<"z">> >>)
            @@ (BatchDir \o <<"/", "b", "/">> \o SKILL_MD) :> TextFile(<<FENCE, <<"n", "a", "m", "e", ":", " ", "b">>, Line_desc_e, FENCE, <<"y">> >>)
            @@ (BatchDir \o <<"/", "f">>) :> TextFile(<< <<"f">> >>)
            @@ (NoSkillDir \o <<"/", "d", "/", "r">>) :> TextFile(<< <<"r">> >>)
  IN [q \in dirs \cup DOMAIN files \cup DOMAIN BaseFs |->
        IF q \in dirs THEN DirNode ELSE IF q \in DOMAIN files THEN files[q] ELSE BaseFs[q]]

BatchParents == {BatchDir, EmptyDir, NoSkillDir, Missing}

InitBatch ==
  /\ fs = BatchFs
  /\ home \in {Some(HOME), Undef}
  /\ last = Idle

\* deploy --batch: batchDeploySkills(dir, options)
BatchDeploy ==
  /\ last.op = "none"
  /\ \E parentDir \in BatchParents, targets \in TargetLists, force \in BOOLEAN, dryRun \in BOOLEAN :
       LET options == [targets |-> targets, force |-> force, dryRun |-> dryRun, projectPath |-> Undef]
       IN /\ last' = [op |-> "batch", parentDir |-> parentDir, options |-> options, pre |-> fs,
                      ret |-> batchDeploySkills(fs, home, parentDir, options)]
          /\ fs' = last'.ret.fs
  /\ UNCHANGED home

\* deploy of one skill of the directory on its own: deploySkill(skillDir, options)
BatchSingle ==
  /\ last.op = "none"
  /\ \E skillDir \in {BatchDir \o <<"/", "a">>}, target \in DeployTarget, force \in BOOLEAN :
       LET options == [targets |-> <<target>>, force |-> force, dryRun |-> FALSE, projectPath |-> Undef]
       IN /\ last' = [op |-> "deploy", skillDir |-> skillDir, options |-> options, pre |-> fs,
                      ret |-> deploySkill(fs, home, skillDir, options)]
          /\ fs' = last'.ret.fs
  /\ UNCHANGED home

NextBatch == BatchDeploy \/ BatchSingle \/ Exit

SpecBatch == InitBatch /\ [][NextBatch]_vars

----------------------------------------------------------------------------
(* Syncing a local link again after its source was edited *)

ResyncScopes == {<<"codex", Some(FALSE)>>, <<"cursor", Some(TRUE)>>}

ResyncNames == {<<"x">>}

ResyncInputs == {[source |-> SkA, linkOptions |-> Details(Undef, Undef, Undef)]}

\* what the manifest of a linked skill can be rewritten to
ManifestEdits ==
  {<<FENCE, Line_name_a, Line_desc_e, FENCE, <<"x">> >>,
   <<FENCE, Line_name_bad, Line_desc_d, FENCE>>,
   <<FENCE, Line_desc_d, FENCE, <<"z">> >>,
   << <<"#", " ", "t">>, FENCE >>}

\* the user edits or deletes the manifest of a source skill between two
\* commands
EditManifest ==
  /\ last.op = "none"
  /\ \/ \E text \in ManifestEdits :
          /\ Exists(fs, Join(SkA, SKILL_MD)) => fs[Join(SkA, SKILL_MD)] # TextFile(text)
          /\ fs' = WriteNode(fs, Join(SkA, SKILL_MD), TextFile(text))
     \/ /\ Exists(fs, Join(SkA, SKILL_MD))
        /\ fs' = RemoveRecursive(fs, Join(SkA, SKILL_MD))
  /\ UNCHANGED <<home, last>>

ResyncAdd == AddLinkWith(ResyncScopes, ResyncNames, ResyncInputs)

ResyncLink == SyncLinkWith(ResyncScopes, ResyncNames)

NextResync == ResyncAdd \/ EditManifest \/ ResyncLink \/ Exit

SpecResync == InitSync /\ [][NextResync]_vars

----------------------------------------------------------------------------
(* Syncing every link of one registry file *)

\* link sync --all: syncAllLinks(options); clones gives the outcome of the
\* clone for each position of the registry
SyncAllWith(scopes, cloneLists) ==
  /\ last.op = "none"
  /\ FreeTemps(fs) # {}
  /\ \E scope \in scopes, force \in BOOLEAN, clones \in cloneLists :
       LET options == LinkOptions(scope, force)
       IN /\ last' = [op |-> "syncAll", options |-> options, clones |-> clones, pre |-> fs,
                      ret |-> syncAllLinks(fs, home, options, clones)]
          /\ fs' = last'.ret.fs
  /\ UNCHANGED home

AllNames == {<<"x">>, <<"y">>, <<"z">>}

AllInputs ==
  {[source |-> SkA, linkOptions |-> Details(Undef, Undef, Undef)],
   [source |-> S_github, linkOptions |-> Details(Undef, Undef, Undef)],
   [source |-> S_github, linkOptions |-> Details(Undef, Undef, Some(FALSE))]}

\* the outcomes of the clones of one syncAllLinks call, by registry position
CloneLists == [1..MaxLinks -> {"fail", "skill"}]

AllAdd == AddLinkWith(SyncScopes, AllNames, AllInputs)

AllToggle == ToggleLinkWith(SyncScopes, AllNames)

SyncAll == SyncAllWith(SyncScopes, CloneLists)

NextSyncAll == AllAdd \/ AllToggle \/ SyncAll \/ Exit

SpecSyncAll == InitSync /\ [][NextSyncAll]_vars

----------------------------------------------------------------------------
(* Properties of the link registry *)

\* the registry the last link command addressed, read from filesystem f
RegistryIn(f) == readLinkRegistry(f, home, last.options.target, UserLevel(last.options))

LinkOp == last.op \in {"add", "remove", "toggle", "list", "sync"}

UniqueNames(links) == \A i, j \in 1..Len(links) : i # j => links[i].name # links[j].name

\* C6: no two links of a registry file have the same name
C6_UniqueLinkNames ==
  \A scope \in RegistryScopes : UniqueNames(CurrentLinks(scope))

C6_Witness ==
  /\ last.op = "add"
  /\ last.options.force
  /\ last.ret.result.success
  /\ FindIndex(RegistryIn(last.pre).registry.links, last.name) >= 1
  /\ Len(RegistryIn(fs).registry.links) = 2

\* C7: adding an existing name without force fails and writes nothing; with
\* force the entry is replaced at its position; after a successful remove the
\* list has no link of that name
C7_AddReplaceRemove ==
  /\ (last.op = "add" /\ RegistryIn(last.pre).ok /\ FindIndex(RegistryIn(last.pre).registry.links, last.name) >= 1) =>
       LET before == RegistryIn(last.pre).registry.links
           after == RegistryIn(fs).registry.links
           k == FindIndex(before, last.name)
       IN /\ ~last.options.force => (~last.ret.result.success /\ fs = last.pre)
          /\ (last.options.force /\ last.ret.result.success) =>
               /\ Len(after) = Len(before)
               /\ after[k] = last.ret.result.link.v
               /\ after[k] = NewLink(last.name, last.source, last.linkOptions)
               /\ \A i \in 1..Len(before) : i # k => after[i] = before[i]
  /\ (last.op = "remove" /\ last.ret.result.success) =>
       LET l == listLinks(fs, home, last.options)
       IN ~l.threw /\ \A i \in 1..Len(l.links) : l.links[i].name # last.name

C7_Witness ==
  /\ last.op = "add"
  /\ last.options.force
  /\ last.ret.result.success
  /\ Len(RegistryIn(last.pre).registry.links) = 2
  /\ FindIndex(RegistryIn(last.pre).registry.links, last.name) = 1
  /\ RegistryIn(fs).registry.links[1] # RegistryIn(last.pre).registry.links[1]

\* the candidate of the last add does not validate, in the words of the claim
BadCandidate ==
  LET type == IF last.linkOptions.type.def THEN last.linkOptions.type.v ELSE detectLinkType(last.source)
      src == last.source
  IN \/ ~NameRegexTest(last.name)
     \/ /\ type = "local"
        /\ \/ ~Exists(last.pre, src)
           \/ ~IsDirectory(last.pre, src)
           \/ ~validateSkillDir(last.pre, src).valid
     \/ type = "git" /\ ~StartsWith(src, HTTP) /\ ~StartsWith(src, HTTPS) /\ ~StartsWith(src, <<"g", "i", "t", "@">>)
     \/ type = "web" /\ ~StartsWith(src, HTTP) /\ ~StartsWith(src, HTTPS)

\* C8: an add whose candidate does not validate fails with an error and
\* leaves the filesystem, registry file included, as it was
C8_InvalidLinkNotPersisted ==
  (last.op = "add" /\ BadCandidate) =>
    /\ ~last.ret.result.success
    /\ last.ret.result.error # ""
    /\ fs = last.pre

C8_Witness ==
  /\ last.op = "add"
  /\ BadCandidate
  /\ NameRegexTest(last.name)
  /\ home.def
  /\ ~Exists(last.pre, RegistryFile(<<last.options.target, last.options.userLevel>>))
  /\ ~Exists(fs, RegistryFile(<<last.options.target, last.options.userLevel>>))
  /\ ~last.ret.result.success

\* C9: reading a registry whose file is absent gives the empty registry of
\* version 1.0.0 without an error and creates nothing; a file without a
\* version or without a links array is an error
C9_MissingRegistryReadsEmpty ==
  (last.op = "list" /\ home.def) =>
    LET file == RegistryFile(<<last.options.target, last.options.userLevel>>) IN
    /\ ~Exists(last.pre, file) =>
         /\ last.read.ok
         /\ last.read.registry = [version |-> LINK_REGISTRY_VERSION, links |-> <<>>]
         /\ ~last.ret.threw
         /\ last.ret.links = <<>>
         /\ fs = last.pre
    /\ (Exists(last.pre, file) /\ last.pre[Abs(file)].json.ok
          /\ (last.pre[Abs(file)].json.version = <<>> \/ ~last.pre[Abs(file)].json.isArr)) =>
         /\ ~last.read.ok
         /\ last.ret.threw

C9_Witness ==
  /\ last.op = "list"
  /\ home.def
  /\ ~Exists(fs, RegistryFile(<<last.options.target, last.options.userLevel>>))
  /\ last.read.ok
  /\ last.read.registry.links = <<>>

\* C10: sync of a name that is not in the registry, of a disabled link (with
\* or without force) or of a web link fails without a temporary directory,
\* a clone or a deployment
C10_SyncRefusals ==
  (last.op = "sync" /\ RegistryIn(last.pre).ok) =>
    LET links == RegistryIn(last.pre).registry.links
        k == FindIndex(links, last.name)
    IN (k = 0 \/ ~links[k].enabled \/ links[k].type = "web") =>
         /\ ~last.ret.result.success
         /\ last.ret.result.error =
              (IF k = 0 THEN "Link not found"
               ELSE IF ~links[k].enabled THEN "Link is disabled"
               ELSE "Web links are not yet supported for syncing")
         /\ ~last.ret.effects.tempDir.def
         /\ ~last.ret.effects.cloned
         /\ ~last.ret.effects.deployed
         /\ last.ret.result.deployResults = <<>>
         /\ fs = last.pre

C10_Witness ==
  /\ last.op = "sync"
  /\ last.options.force
  /\ LET links == RegistryIn(last.pre).registry.links
         k == FindIndex(links, last.name)
     IN k >= 1 /\ ~links[k].enabled /\ links[k].type = "git"
  /\ ~last.ret.result.success

----------------------------------------------------------------------------
(* Properties of the link synchronizer *)

SyncReturned == last.op = "sync"

\* the link the last sync looked up, as the registry had it
SyncedLink ==
  LET links == RegistryIn(last.pre).registry.links
  IN links[FindIndex(links, last.name)]

SyncFoundLink ==
  /\ SyncReturned
  /\ RegistryIn(last.pre).ok
  /\ FindIndex(RegistryIn(last.pre).registry.links, last.name) >= 1

\* C11: the temporary directory a sync made for a git link does not exist
\* when the sync returns, whatever the deployment did and with or without a
\* path inside the repository
C11_TempDirRemoved ==
  (SyncReturned /\ last.ret.effects.tempDir.def) =>
    ~Exists(fs, last.ret.effects.tempDir.v)

\* C12: a sync whose git clone fails returns a failure naming the clone,
\* deploys nothing and leaves no temporary directory
C12_CloneFailure ==
  (SyncReturned /\ last.ret.effects.cloned /\ last.clone = "fail") =>
    /\ ~last.ret.result.success
    /\ last.ret.result.error = "Git clone failed"
    /\ ~last.ret.effects.deployed
    /\ last.ret.result.deployResults = <<>>
    /\ ~Exists(fs, last.ret.effects.tempDir.v)
    /\ fs = last.pre

C12_Witness ==
  /\ SyncFoundLink
  /\ SyncedLink.type = "git"
  /\ SyncedLink.enabled
  /\ last.clone = "fail"
  /\ last.ret.effects.tempDir.def
  /\ ~last.ret.result.success
\* C13: a sync of a local link whose source directory does not validate
\* fails and deploys nothing
C13_InvalidSourceNotDeployed ==
  (SyncFoundLink /\ SyncedLink.enabled /\ SyncedLink.type = "local"
     /\ ~validateSkillDir(last.pre, SyncedLink.source).valid) =>
    /\ ~last.ret.result.success
    /\ fs = last.pre
SyncAllReturned == last.op = "syncAll" /\ ~last.ret.threw

\* the positions of the enabled links of a registry, in registry order
RECURSIVE EnabledNames(_)
EnabledNames(links) ==
  IF links = <<>> THEN <<>>
  ELSE (IF Head(links).enabled THEN <<Head(links).name>> ELSE <<>>) \o EnabledNames(Tail(links))

\* C14: syncAll returns one result per enabled link, in registry order, the
\* result of the sync of that link; disabled links are not synced, and a
\* failed sync does not end the loop
C14_OneResultPerEnabledLink ==
  SyncAllReturned =>
    LET names == EnabledNames(RegistryIn(last.pre).registry.links)
        steps == last.ret.steps
    IN /\ Len(last.ret.results) = Len(names)
       /\ Len(steps) = Len(names)
       /\ \A i \in 1..Len(names) :
            /\ steps[i].name = names[i]
            /\ last.ret.results[i] = steps[i].ret.result
            /\ steps[i].ret.result.link.def => steps[i].ret.result.link.v.name = names[i]

C14_Witness ==
  /\ SyncAllReturned
  /\ Len(RegistryIn(last.pre).registry.links) = 3
  /\ Len(last.ret.results) = 2
  /\ ~RegistryIn(last.pre).registry.links[1].enabled
  /\ ~last.ret.results[1].success
  /\ last.ret.results[2].success
\* the destination of a skill named a for the target of the last command
SyncDest == Join(ExpandHome(getTargetPath(last.options.target, TRUE), home).v, <<"a">>)

\* C15: a sync that reaches the deployment deploys to the one target of its
\* options with the caller's force flag, and succeeds exactly when every
\* outcome deploySkill returned is a success
C15_SyncDeploysOneTarget ==
  (SyncReturned /\ last.ret.effects.deployed) =>
    /\ last.ret.effects.deployOptions.v.targets = <<last.options.target>>
    /\ last.ret.effects.deployOptions.v.force = last.options.force
    /\ \A i \in 1..Len(last.ret.result.deployResults) :
         last.ret.result.deployResults[i].target = last.options.target
    /\ last.ret.result.link.def =>
         /\ Len(last.ret.result.deployResults) = 1
         /\ last.ret.result.success <=>
              \A i \in 1..Len(last.ret.result.deployResults) : last.ret.result.deployResults[i].success
    /\ (Exists(last.pre, SyncDest) /\ ~last.options.force) =>
         /\ ~last.ret.result.success
         /\ \A q \in DOMAIN last.pre : (q = SyncDest \/ IsUnder(q, SyncDest)) => (q \in DOMAIN fs /\ fs[q] = last.pre[q])

C15_Witness ==
  /\ SyncReturned
  /\ last.ret.effects.deployed
  /\ ~last.options.force
  /\ Exists(last.pre, SyncDest)
  /\ last.ret.result.link.def
  /\ ~last.ret.result.success
----------------------------------------------------------------------------
(* Properties of the batch deployment *)

BatchReturned == last.op = "batch" /\ ~last.ret.threw

\* the directories directly below parentDir that hold a manifest
SkillDirsBelow(f, parentDir) ==
  {q \in DOMAIN f : /\ f[q].kind = "dir"
                    /\ q = Join(Abs(parentDir), Basename(q))
                    /\ Join(q, SKILL_MD) \in DOMAIN f}

\* C16: a batch deployment returns one entry per skill directory, ordered by
\* directory name; a skill that does not validate has validationError and
\* no outcomes and nothing is deployed for it, and the skills after a failed
\* one are still handled
C16_BatchOneEntryPerSkill ==
  BatchReturned =>
    LET res == last.ret.results
        steps == last.ret.steps
    IN /\ Len(res) = Cardinality(SkillDirsBelow(last.pre, last.parentDir))
       /\ {res[i].skillDir : i \in 1..Len(res)} = SkillDirsBelow(last.pre, last.parentDir)
       /\ \A i \in 1..(Len(res) - 1) : StrLess(Basename(res[i].skillDir), Basename(res[i + 1].skillDir))
       /\ \A i \in 1..Len(res) :
            IF validateSkillDir(steps[i].pre, res[i].skillDir).valid
            THEN /\ ~res[i].validationError.def
                 /\ steps[i].deployed
                 /\ Len(res[i].results) = Len(last.options.targets)
            ELSE /\ res[i].validationError.def
                 /\ res[i].results = <<>>
                 /\ ~steps[i].deployed
                 /\ steps[i].post = steps[i].pre

C16_Witness ==
  /\ BatchReturned
  /\ ~last.options.dryRun
  /\ Len(last.ret.results) = 3
  /\ Len(last.ret.results[1].results) = 1
  /\ ~last.ret.results[1].results[1].success
  /\ last.ret.results[2].validationError.def
  /\ last.ret.results[3].results[1].success
  /\ fs # last.pre

\* C17: a batch deployment of a directory that does not exist, or that has
\* no subdirectory with a manifest, raises its error and changes nothing
C17_BatchFailsBeforeSkills ==
  (last.op = "batch" /\ (~Exists(last.pre, last.parentDir) \/ SkillDirsBelow(last.pre, last.parentDir) = {})) =>
    /\ last.ret.threw
    /\ last.ret.error = (IF ~Exists(last.pre, last.parentDir) THEN "Directory not found" ELSE "No skills found")
    /\ last.ret.steps = <<>>
    /\ last.ret.results = <<>>
    /\ fs = last.pre

C17_Witness ==
  /\ last.op = "batch"
  /\ ~Exists(last.pre, last.parentDir)
  /\ last.ret.threw
  /\ ~last.options.dryRun
----------------------------------------------------------------------------
(* Properties of removeSkill *)

RemoveReturned == last.op = "removeSkill"

\* the destination removeSkill addresses; for claude and codex there is none
\* while the home directory is unknown
RemoveDest ==
  IF last.target = "cursor" THEN Abs(TARGET_PATHS_cursor_project)
  ELSE Abs(Join(ExpandHome(getTargetPath(last.target, TRUE), home).v, last.name))

RemovePresent ==
  /\ last.target # "cursor" => home.def
  /\ RemoveDest \in DOMAIN last.pre

\* the destination and all below it are gone and nothing else has changed
RemovedOnlyDest ==
  /\ \A q \in DOMAIN fs : q # RemoveDest /\ ~IsUnder(q, RemoveDest)
  /\ \A q \in DOMAIN last.pre :
       (q # RemoveDest /\ ~IsUnder(q, RemoveDest)) => (q \in DOMAIN fs /\ fs[q] = last.pre[q])

\* C18 as claimed: a destination that is present is deleted with success;
\* one that is not present gives a not-found failure and no change, for
\* every target
C18_RemoveSkillAsClaimed ==
  RemoveReturned =>
    IF RemovePresent
    THEN last.ret.result.success /\ RemovedOnlyDest
    ELSE /\ ~last.ret.result.success
         /\ last.ret.result.error = "Skill not found"
         /\ fs = last.pre

\* C18: a destination that is present is deleted with success; one that is
\* not present changes nothing and, for claude and codex, gives a failure
\* (not found, or no home directory), for cursor a success
C18_RemoveSkill ==
  RemoveReturned =>
    IF RemovePresent
    THEN last.ret.result.success /\ RemovedOnlyDest
    ELSE /\ fs = last.pre
         /\ last.target # "cursor" =>
              /\ ~last.ret.result.success
              /\ last.ret.result.error =
                   (IF home.def THEN "Skill not found" ELSE "Could not determine home directory")
         /\ last.target = "cursor" => last.ret.result.success

C18_Witness ==
  /\ RemoveReturned
  /\ last.target = "claude"
  /\ last.name = <<"a">>
  /\ RemovePresent
  /\ \E q \in DOMAIN last.pre : IsUnder(q, RemoveDest)
  /\ last.ret.result.success
  /\ RemoveDest \notin DOMAIN fs

\* C19: removeSkill for cursor succeeds when there is no .cursorrules file,
\* whatever the name
C19_RemoveCursorAbsent ==
  (RemoveReturned /\ last.target = "cursor" /\ ~Exists(last.pre, TARGET_PATHS_cursor_project)) =>
    /\ last.ret.result.success
    /\ last.ret.result.error = ""
    /\ fs = last.pre

C19_Witness ==
  /\ RemoveReturned
  /\ last.target = "cursor"
  /\ last.name = <<"b">>
  /\ ~Exists(last.pre, TARGET_PATHS_cursor_project)
  /\ Exists(last.pre, Join(Join(HOME, <<".", "c", "l", "a", "u", "d", "e", "/", "s", "k", "i", "l", "l", "s">>), <<"a">>))
  /\ last.ret.result.success
----------------------------------------------------------------------------
(* Properties of validateMetadata *)

ValidateReturned == last.op = "validateMetadata"

\* the number of errors of the last validation that name the field
ErrorsOf(field) ==
  Cardinality({i \in 1..Len(last.ret) : last.ret[i].field = field})

SingleLineString(v, limit) ==
  /\ v.t = "str"
  /\ v.s # <<>>
  /\ Len(v.s) <= limit
  /\ \A i \in 1..Len(v.s) : v.s[i] # "\n"

NameOk(v) ==
  /\ SingleLineString(v, 64)
  /\ \A i \in 1..Len(v.s) :
       v.s[i] \in {"a", "b", "c", "d", "e", "f", "g", "h", "i", "j", "k", "l", "m", "n", "o", "p", "q", "r", "s", "t", "u", "v", "w", "x", "y", "z",
                   "0", "1", "2", "3", "4", "5", "6", "7", "8", "9", "-"}

StringListOk(v) ==
  \/ v.t = "undef"
  \/ v.t = "arr" /\ \A i \in 1..Len(v.a) : v.a[i].t = "str"

ModelOk(v) == v.t \in {"undef", "str"}

\* C20: validateMetadata returns no error for a valid header; a header
\* without name (description) has exactly one error for that field, and each
\* of the other fields has an error exactly when it breaks its own rule
C20_AllViolationsCollected ==
  ValidateReturned =>
    LET md == last.metadata IN
    /\ (NameOk(md.name) /\ SingleLineString(md.description, 500) /\ StringListOk(md.allowedTools)
          /\ ModelOk(md.model) /\ StringListOk(md.skills)) => last.ret = <<>>
    /\ md.name.t = "undef" => ErrorsOf("name") = 1
    /\ md.description.t = "undef" => ErrorsOf("description") = 1
    /\ (ErrorsOf("name") > 0) <=> ~NameOk(md.name)
    /\ (ErrorsOf("description") > 0) <=> ~SingleLineString(md.description, 500)
    /\ (ErrorsOf("allowed-tools") > 0) <=> ~StringListOk(md.allowedTools)
    /\ (ErrorsOf("model") > 0) <=> ~ModelOk(md.model)
    /\ (ErrorsOf("skills") > 0) <=> ~StringListOk(md.skills)

C20_Witness ==
  /\ ValidateReturned
  /\ last.metadata.name.t = "undef"
  /\ ErrorsOf("name") = 1
  /\ last.metadata.description.t = "undef"
  /\ ErrorsOf("description") = 1
  /\ ErrorsOf("allowed-tools") = 2
  /\ ErrorsOf("model") = 1
  /\ ErrorsOf("skills") = 2
----------------------------------------------------------------------------
(* Validating skill directories and manifests (validator.ts) *)

\* what the manifest of a skill can hold: a valid header, a header with
\* several faults, an empty header (null), a header line that is not YAML,
\* a header that is never closed, no header, an empty file
ValidateManifests ==
  {<<FENCE, Line_name_a, Line_desc_e, FENCE, <<"x">> >>,
   <<FENCE, Line_name_bad, FENCE>>,
   <<FENCE, FENCE, <<"x">> >>,
   <<FENCE, <<"n", "a", "m", "e">>, FENCE>>,
   <<FENCE, Line_name_a, Line_desc_d>>,
   << <<"#", " ", "t">>, FENCE >>,
   << <<>> >>}

\* the user rewrites the manifest of a skill, replaces it with a directory
\* or deletes it
EditHeader ==
  /\ last.op = "none"
  /\ \/ \E node \in {TextFile(text) : text \in ValidateManifests} \cup {DirNode} :
          /\ Exists(fs, Join(SkA, SKILL_MD)) => fs[Join(SkA, SKILL_MD)] # node
          /\ fs' = WriteNode(RemoveRecursive(fs, Join(SkA, SKILL_MD)), Join(SkA, SKILL_MD), node)
     \/ /\ Exists(fs, Join(SkA, SKILL_MD))
        /\ fs' = RemoveRecursive(fs, Join(SkA, SKILL_MD))
  /\ UNCHANGED <<home, last>>

ValidatePaths == {SkA, SkB, SkNoName, SkNoManifest, SkNoFence, SkBadName, PlainFile, Missing}

\* validate: validateSkillDir(dir); the function only calls Deno.stat and
\* Deno.readTextFile
ValidateDir ==
  /\ last.op = "none"
  /\ \E dirPath \in ValidatePaths :
       last' = [op |-> "validateSkillDir", path |-> dirPath, pre |-> fs, ret |-> validateSkillDir(fs, dirPath)]
  /\ UNCHANGED <<fs, home>>

\* validateSkillFile(filepath) on a manifest path, a directory or nothing
ValidateFile ==
  /\ last.op = "none"
  /\ \E filepath \in {Join(d, SKILL_MD) : d \in ValidatePaths} \cup {SkA} :
       last' = [op |-> "validateSkillFile", path |-> filepath, pre |-> fs, ret |-> validateSkillFile(fs, filepath)]
  /\ UNCHANGED <<fs, home>>

NextValidateDir == EditHeader \/ ValidateDir \/ ValidateFile \/ Exit

SpecValidateDir == InitSync /\ [][NextValidateDir]_vars

\* the file at path p starts with a header that is closed, is YAML and is a
\* mapping whose fields keep every rule of the metadata
HeaderPasses(f, p) ==
  /\ p \in DOMAIN f
  /\ f[p].kind = "file"
  /\ LET lines == f[p].text IN
     /\ lines # <<>>
     /\ Trim(lines[1]) = FENCE
     /\ \E k \in 2..Len(lines) :
          /\ Trim(lines[k]) = FENCE
          /\ \A j \in 2..(k - 1) : Trim(lines[j]) # FENCE
          /\ k > 2
          /\ \A j \in 2..(k - 1) : \E c \in 1..Len(lines[j]) : lines[j][c] = ":"
          /\ LET md == parseFrontmatter(lines).metadata
             IN /\ NameOk(md.name)
                /\ SingleLineString(md.description, 500)
                /\ StringListOk(md.allowedTools)
                /\ ModelOk(md.model)
                /\ StringListOk(md.skills)

\* C21: validateSkillDir and validateSkillFile return a result and leave the
\* filesystem alone; the result is valid with no errors exactly when the
\* path is a directory (for validateSkillFile: a file) whose manifest has a
\* header that passes every rule, and is invalid with at least one error
\* otherwise
C21_ValidationNeverRaises ==
  (last.op \in {"validateSkillDir", "validateSkillFile"}) =>
    /\ fs = last.pre
    /\ last.ret.valid \in BOOLEAN
    /\ last.ret.valid <=> (last.ret.errors = <<>>)
    /\ last.op = "validateSkillDir" =>
         (last.ret.valid <=> (IsDirectory(last.pre, last.path) /\ HeaderPasses(last.pre, Join(last.path, SKILL_MD))))
    /\ last.op = "validateSkillFile" =>
         (last.ret.valid <=> HeaderPasses(last.pre, last.path))

C21_Witness ==
  /\ last.op = "validateSkillDir"
  /\ last.path = SkA
  /\ IsDirectory(last.pre, SkA)
  /\ Exists(last.pre, Join(SkA, SKILL_MD))
  /\ last.pre[Join(SkA, SKILL_MD)] = TextFile(<<FENCE, FENCE, <<"x">> >>)
  /\ ~last.ret.valid
  /\ Len(last.ret.errors) = 1
----------------------------------------------------------------------------
(* Converting a manifest to the cursor dialect (convertToCursorRules) *)

ConvertLines == {<<>>, <<" ">>, Line_rule, <<"y">>, <<" ", "y", " ">>}

MaxBodyLines == 3

\* bodies of up to MaxBodyLines lines, with and without the section marker,
\* with and without blank lines and whitespace at their ends
ConvertBodies == SeqsUpTo(ConvertLines, MaxBodyLines)

ConvertSkills ==
  {[metadata |-> [EmptyMetadata EXCEPT !.name = n, !.description = VStr(<<"d">>)], content |-> body] :
     n \in {VStr(<<"a">>), VUndef}, body \in ConvertBodies}

\* convertToCursorRules(skill)
Convert ==
  /\ last.op = "none"
  /\ \E skill \in ConvertSkills :
       last' = [op |-> "convert", skill |-> skill, ret |-> convertToCursorRules(skill)]
  /\ UNCHANGED <<fs, home>>

NextConvert == Convert \/ Exit

SpecConvert == InitSync /\ [][NextConvert]_vars

\* lines.join("\n")
RECURSIVE JoinLines(_)
JoinLines(ls) ==
  IF ls = <<>> THEN <<>>
  ELSE IF Len(ls) = 1 THEN ls[1]
  ELSE ls[1] \o <<"\n">> \o JoinLines(Tail(ls))

\* C22: a body that contains "## Rule:" is in the converted document
\* character for character, blank lines and whitespace at its ends included,
\* and no generic section is added; a body without the marker comes under
\* exactly one "## Rule: Skill Instructions" section
C22_MarkedBodyVerbatim ==
  last.op = "convert" =>
    LET body == last.skill.content
        doc == last.ret
        generic == {i \in 1..Len(doc) : doc[i] = GenericRule}
    IN IF Includes(JoinLines(body), RuleMarker)
       THEN /\ Includes(JoinLines(doc), JoinLines(body))
            /\ generic = {}
       ELSE /\ Cardinality(generic) = 1
            /\ \A i \in generic : SubSeq(doc, i + 2, Len(doc)) = TrimText(body)
----------------------------------------------------------------------------
(* Properties of overwriting a deployed skill *)

\* the paths below directory d in f, relative to d, with their nodes
TreeBelow(f, d) ==
  {<<SubSeq(q, Len(Abs(d)) + 1, Len(q)), f[q]>> : q \in {r \in DOMAIN f : IsUnder(r, Abs(d))}}

\* step i of the last deploy overwrote an existing claude or codex destination
OverwriteStep(i) ==
  /\ Steps[i].result.target \in {"claude", "codex"}
  /\ Steps[i].result.success
  /\ last.options.force
  /\ ~last.options.dryRun
  /\ Exists(Steps[i].pre, Steps[i].result.path.v)

\* C23: after a successful deploy with force over an existing claude or
\* codex destination, the destination holds exactly the files of the source
\* skill directory and nothing the previous deployment had
C23_ForceReplacesDestination ==
  DeployReturned =>
    \A i \in 1..Len(Steps) :
      OverwriteStep(i) =>
        /\ IsDirectory(Steps[i].post, Steps[i].result.path.v)
        /\ TreeBelow(Steps[i].post, Steps[i].result.path.v) = TreeBelow(Steps[i].pre, last.skillDir)

C23_Witness ==
  /\ DeployReturned
  /\ \E i \in 1..Len(Steps) :
       /\ OverwriteStep(i)
       /\ TreeBelow(Steps[i].pre, Steps[i].result.path.v) \ TreeBelow(Steps[i].pre, last.skillDir) # {}
       /\ TreeBelow(Steps[i].post, Steps[i].result.path.v) = TreeBelow(Steps[i].pre, last.skillDir)
----------------------------------------------------------------------------
(* Syncing git links with and without a stored branch *)

BRANCH_main == <<"m", "a", "i", "n">>

BranchInputs ==
  {[source |-> S_github,
    linkOptions |-> [type |-> Undef, path |-> Undef, branch |-> b, enabled |-> Undef, description |-> Undef]] :
     b \in {Undef, Some(<<"d", "e", "v">>), Some(BRANCH_main)}}

\* the branch HEAD of the remote repository names
RemoteHeads == {BRANCH_main, <<"m", "a", "s", "t", "e", "r">>}

BranchAdd == AddLinkWith(SyncScopes, SyncNames, BranchInputs)

\* link sync of a git link: syncLink(name, options); git clone without
\* --branch checks out the branch the remote HEAD names
BranchSync ==
  /\ last.op = "none"
  /\ \E scope \in SyncScopes, name \in SyncNames, tempDir \in TempDirs, clone \in {"fail", "skill"}, remoteHead \in RemoteHeads :
       /\ tempDir \notin DOMAIN fs
       /\ LET options == LinkOptions(scope, TRUE)
          IN /\ last' = [op |-> "sync", name |-> name, options |-> options, clone |-> clone, remoteHead |-> remoteHead,
                         pre |-> fs, ret |-> syncLink(fs, home, name, options, tempDir, clone)]
             /\ fs' = last'.ret.fs
  /\ UNCHANGED home

NextBranch == BranchAdd \/ BranchSync \/ Exit

SpecBranch == InitSync /\ [][NextBranch]_vars

\* the branch the clone of the last sync retrieved
RetrievedBranch ==
  IF last.ret.effects.branchArg.def THEN last.ret.effects.branchArg.v ELSE last.remoteHead

\* C24: the clone of a sync retrieves the branch the link stores, and the
\* branch main when the link stores none
C24_DefaultBranchMain ==
  (SyncFoundLink /\ last.ret.effects.cloned) =>
    RetrievedBranch = (IF SyncedLink.branch.def THEN SyncedLink.branch.v ELSE BRANCH_main)
----------------------------------------------------------------------------
(* Properties of deploySkill on a manifest that cannot be read *)

\* the manifest of the skill directory of the last deploy is missing
ManifestMissing == ~Exists(last.pre, Join(last.skillDir, SKILL_MD))

\* the manifest is a file whose first line is not the frontmatter fence
ManifestUnfenced ==
  /\ Exists(last.pre, Join(last.skillDir, SKILL_MD))
  /\ last.pre[Join(last.skillDir, SKILL_MD)].kind = "file"
  /\ LET text == last.pre[Join(last.skillDir, SKILL_MD)].text
     IN text = <<>> \/ Trim(text[1]) # FENCE

\* C25: deploySkill on a skill directory whose manifest is missing or does
\* not start with frontmatter raises that error, returns no outcome, gives
\* no target its turn and leaves the filesystem as it was
C25_DeployRaisesBeforeTargets ==
  (last.op = "deploy" /\ (ManifestMissing \/ ManifestUnfenced)) =>
    /\ last.ret.threw
    /\ last.ret.error = (IF ManifestMissing THEN "FileNotFound" ELSE "MustStartWithFrontmatter")
    /\ last.ret.results = <<>>
    /\ last.ret.steps = <<>>
    /\ fs = last.pre

C25_Witness ==
  /\ last.op = "deploy"
  /\ ManifestUnfenced
  /\ ~last.options.dryRun
  /\ last.options.force
  /\ Len(last.options.targets) = 2
  /\ last.ret.threw
  /\ Exists(last.pre, Join(Join(HOME, <<".", "c", "l", "a", "u", "d", "e", "/", "s", "k", "i", "l", "l", "s">>), <<"a">>))
----------------------------------------------------------------------------
(* Properties of toggleLink *)

ToggleReturned == last.op = "toggle" /\ RegistryIn(last.pre).ok

\* C26: a toggle of a link that is in the registry sets its enabled flag to
\* the value given and changes nothing else: the other fields, the other
\* links, the order and every other file stay; the same toggle again changes
\* nothing; the link is still listed.  A toggle of a name that is not in the
\* registry fails with not found and writes nothing
C26_ToggleOnlyEnabled ==
  ToggleReturned =>
    LET before == RegistryIn(last.pre).registry.links
        after == RegistryIn(fs).registry.links
        k == FindIndex(before, last.name)
    IN IF k >= 1
       THEN /\ last.ret.result.success
            /\ Len(after) = Len(before)
            /\ \A i \in 1..Len(before) : i # k => after[i] = before[i]
            /\ after[k] = [before[k] EXCEPT !.enabled = last.enabled]
            /\ RegistryIn(fs).registry.version = RegistryIn(last.pre).registry.version
            /\ DOMAIN fs = DOMAIN last.pre
            /\ \A q \in DOMAIN fs : q # Abs(RegistryFile(<<last.options.target, last.options.userLevel>>)) => fs[q] = last.pre[q]
            /\ toggleLink(fs, home, last.name, last.enabled, last.options).fs = fs
            /\ ~listLinks(fs, home, last.options).threw
            /\ listLinks(fs, home, last.options).links = after
       ELSE /\ ~last.ret.result.success
            /\ last.ret.result.error = "Link not found"
            /\ fs = last.pre

C26_Witness ==
  /\ ToggleReturned
  /\ ~last.enabled
  /\ last.ret.result.success
  /\ Len(RegistryIn(last.pre).registry.links) = 2
  /\ FindIndex(RegistryIn(last.pre).registry.links, last.name) = 1
  /\ RegistryIn(last.pre).registry.links[1].enabled
  /\ \E i \in 1..2 : listLinks(fs, home, last.options).links[i].name = last.name
                     /\ ~listLinks(fs, home, last.options).links[i].enabled
----------------------------------------------------------------------------
(* Two invocations of link add running at the same time on one registry   *)
(* file.  Each await of addLink is a point where the other invocation can  *)
(* run: after the registry was read, after the link was validated, and     *)
(* after the directory of the registry file was made.                      *)

RaceSources == {SkA, S_github, S_ftp}

\* an invocation of addLink that has not started
Invocation(name, source) ==
  [pc |-> "start", name |-> name, source |-> source, registry |-> EmptyRegistry, existingIndex |-> 0,
   link |-> Undef, result |-> LinkResult(FALSE, Undef, ""), readAfter |-> 0]

\* the two invocations are started, with different names
RaceStart ==
  /\ last.op = "none"
  /\ \E src1 \in RaceSources, src2 \in RaceSources, force \in BOOLEAN :
       last' = [op |-> "race", options |-> LinkOptions(<<"codex", Some(FALSE)>>, force), pre |-> fs, writes |-> <<>>,
                inv |-> <<Invocation(<<"x">>, src1), Invocation(<<"y">>, src2)>>]
  /\ UNCHANGED <<fs, home>>

Racing(p) == last.op = "race" /\ p \in 1..2

Finished(inv, result) == [inv EXCEPT !.pc = "done", !.result = result]

\* addLink up to the end of its first await: readLinkRegistry, findIndex and
\* the check of an existing name
RaceRead(p) ==
  /\ Racing(p)
  /\ last.inv[p].pc = "start"
  /\ LET r == readLinkRegistry(fs, home, last.options.target, UserLevel(last.options))
         existingIndex == FindIndex(r.registry.links, last.inv[p].name)
     IN last' = [last EXCEPT !.inv[p] =
                   IF ~r.ok THEN Finished(@, LinkResult(FALSE, Undef, r.err))
                   ELSE IF existingIndex >= 1 /\ ~last.options.force
                   THEN Finished(@, LinkResult(FALSE, Undef, "Link already exists. Use --force to overwrite."))
                   ELSE [@ EXCEPT !.pc = "read", !.registry = r.registry, !.existingIndex = existingIndex,
                                  !.readAfter = Len(last.writes)]]
  /\ UNCHANGED <<fs, home>>

\* addLink from the link it builds to the end of await validateLink(link)
RaceValidate(p) ==
  /\ Racing(p)
  /\ last.inv[p].pc = "read"
  /\ LET link == NewLink(last.inv[p].name, last.inv[p].source, Details(Undef, Undef, Undef))
         validation == validateLink(fs, home, link)
     IN last' = [last EXCEPT !.inv[p] =
                   IF ~validation.valid THEN Finished(@, LinkResult(FALSE, Undef, validation.error))
                   ELSE [@ EXCEPT !.pc = "validated", !.link = Some(link)]]
  /\ UNCHANGED <<fs, home>>

\* as RaceDocument, updating the document that is on disk at the time of the
\* write
RaceDocument_Rereads(f, h, options, inv) ==
  LET now == readLinkRegistry(f, h, options.target, UserLevel(options)).registry
      k == FindIndex(now.links, inv.name)
  IN [now EXCEPT !.links = IF k >= 1 THEN [@ EXCEPT ![k] = inv.link.v] ELSE Append(@, inv.link.v)]

\* the document an invocation writes: the registry it read, with its link
\* put at the index found then or pushed at the end
RaceDocument(f, h, options, inv) ==
  [inv.registry EXCEPT !.links = IF inv.existingIndex >= 1 THEN [@ EXCEPT ![inv.existingIndex] = inv.link.v]
                                 ELSE Append(@, inv.link.v)]

\* writeLinkRegistry up to the end of await Deno.mkdir(dir, { recursive: true })
RaceMkdir(p) ==
  /\ Racing(p)
  /\ last.inv[p].pc = "validated"
  /\ LET registryPath == getLinkRegistryPath(last.options.target, UserLevel(last.options), home).v
     IN fs' = MkdirP(fs, SubSeq(registryPath, 1, LastSlash(registryPath) - 1))
  /\ last' = [last EXCEPT !.inv[p].pc = "dir"]
  /\ UNCHANGED home

\* Deno.writeTextFile(registryPath, JSON.stringify(registry)) and the return
\* of addLink
RaceWrite(p) ==
  /\ Racing(p)
  /\ last.inv[p].pc = "dir"
  /\ fs' = writeLinkRegistry(fs, home, last.options.target, UserLevel(last.options),
                             RaceDocument(fs, home, last.options, last.inv[p]))
  /\ last' = [last EXCEPT !.inv[p] = Finished(@, LinkResult(TRUE, last.inv[p].link, "")),
                          !.writes = Append(@, p)]
  /\ UNCHANGED home

NextRace ==
  \/ RaceStart
  \/ \E p \in 1..2 : RaceRead(p) \/ RaceValidate(p) \/ RaceMkdir(p) \/ RaceWrite(p)
  \/ Exit

SpecRace == InitSync /\ [][NextRace]_vars

\* the names of the links of a list
NamesOf(links) == {links[i].name : i \in 1..Len(links)}

\* C27: the registry file holds, after each write, the document its writer
\* read with the writer's link added, whatever was written in between; so
\* when both invocations succeed, the link of the first writer is in the
\* registry only if the second writer read the registry after that write
\* (or the name was in the registry before)
C27_LostUpdate ==
  (last.op = "race" /\ last.writes # <<>>) =>
    LET w == last.inv[last.writes[Len(last.writes)]]
        links == RegistryIn(fs).registry.links
    IN /\ RegistryIn(fs).ok
       /\ w.result.success
       /\ links = (IF w.existingIndex >= 1 THEN [w.registry.links EXCEPT ![w.existingIndex] = w.link.v]
                   ELSE Append(w.registry.links, w.link.v))
       /\ Len(last.writes) = 2 =>
            LET o == last.inv[last.writes[1]]
            IN /\ o.result.success
               /\ o.name \in NamesOf(links) <=> (w.readAfter >= 1 \/ o.name \in NamesOf(w.registry.links))

\* both invocations reported success and the registry, empty before, holds
\* one link
C27_Witness ==
  /\ last.op = "race"
  /\ Len(last.writes) = 2
  /\ last.inv[1].result.success
  /\ last.inv[2].result.success
  /\ RegistryIn(last.pre).registry.links = <<>>
  /\ Len(RegistryIn(fs).registry.links) = 1
  /\ last.inv[last.writes[1]].name \notin NamesOf(RegistryIn(fs).registry.links)
----------------------------------------------------------------------------
(* Properties of replacing a link *)

\* the last command was a successful add over a link of the same name
ReplacedLink ==
  /\ last.op = "add"
  /\ last.options.force
  /\ last.ret.result.success
  /\ RegistryIn(last.pre).ok
  /\ FindIndex(RegistryIn(last.pre).registry.links, last.name) >= 1

\* the steps of a syncAll have a turn for the link of that name, in which
\* its source was cloned or deployed
SyncsLink(steps, name) ==
  \E i \in 1..Len(steps) :
    /\ steps[i].name = name
    /\ (steps[i].ret.effects.skillDir.def \/ steps[i].ret.effects.cloned)

\* C28: the link stored by an add with force over an existing link has the
\* fields of the new call only; enabled is true unless the call supplies it,
\* also when the replaced link was disabled, and a syncAll that follows
\* syncs the link
C28_ReplaceResetsEnabled ==
  ReplacedLink =>
    LET k == FindIndex(RegistryIn(last.pre).registry.links, last.name)
        stored == RegistryIn(fs).registry.links[k]
    IN /\ stored.name = last.name
       /\ stored.source = last.source
       /\ stored.type = (IF last.linkOptions.type.def THEN last.linkOptions.type.v ELSE detectLinkType(last.source))
       /\ stored.path = last.linkOptions.path
       /\ stored.branch = last.linkOptions.branch
       /\ stored.description = last.linkOptions.description
       /\ stored.enabled = (IF last.linkOptions.enabled.def THEN last.linkOptions.enabled.v ELSE TRUE)
       /\ (~last.linkOptions.enabled.def /\ FreeTemps(fs) # {}) =>
            \A clones \in CloneLists :
              SyncsLink(syncAllLinks(fs, home, last.options, clones).steps, last.name)

C28_Witness ==
  /\ ReplacedLink
  /\ ~last.linkOptions.enabled.def
  /\ Len(RegistryIn(last.pre).registry.links) = 2
  /\ ~RegistryIn(last.pre).registry.links[FindIndex(RegistryIn(last.pre).registry.links, last.name)].enabled
  /\ RegistryIn(fs).registry.links[FindIndex(RegistryIn(last.pre).registry.links, last.name)].enabled
  /\ last.name \in {EnabledNames(RegistryIn(fs).registry.links)[i] : i \in 1..Len(EnabledNames(RegistryIn(fs).registry.links))}
----------------------------------------------------------------------------
(* Properties of the result of a sync *)

\* C29: the result of a sync of a link that is in the registry carries that
\* link, whether the sync succeeded, a deployment failed, the clone failed
\* or the deployment raised; the result of a name that is not in the
\* registry carries none
C29_SyncResultCarriesLink ==
  (SyncReturned /\ RegistryIn(last.pre).ok) =>
    IF FindIndex(RegistryIn(last.pre).registry.links, last.name) >= 1
    THEN /\ last.ret.result.link.def
         /\ last.ret.result.link.v = SyncedLink
         /\ last.ret.result.link.v.name = last.name
    ELSE ~last.ret.result.link.def
----------------------------------------------------------------------------
(* Deploys without force and without dry run, in a project that has no     *)
(* .cursorrules at the start                                                *)

\* deploy: deploySkill(skillDir, options) with force and dryRun not set
PlainDeploy ==
  /\ last.op = "none"
  /\ \E skillDir \in DeploySkillDirs, targets \in TargetLists :
       LET options == [targets |-> targets, force |-> FALSE, dryRun |-> FALSE, projectPath |-> Undef]
       IN /\ last' = [op |-> "deploy", skillDir |-> skillDir, options |-> options, pre |-> fs,
                      ret |-> deploySkill(fs, home, skillDir, options)]
          /\ fs' = last'.ret.fs
  /\ UNCHANGED home

NextPlain == PlainDeploy \/ Exit

SpecPlain == Init /\ [][NextPlain]_vars

CursorRules == Abs(TARGET_PATHS_cursor_project)

\* the turn of a cursor target, given the filesystem before and after it and
\* the skill directory: without .cursorrules it succeeds and writes the
\* converted document of that skill; with one it fails and writes nothing
CursorTurn(step, skillDir) ==
  IF CursorRules \in DOMAIN step.pre
  THEN /\ ~step.result.success
       /\ step.result.error = "already exists. Use --force to overwrite."
       /\ step.post = step.pre
  ELSE /\ step.result.success
       /\ CursorRules \in DOMAIN step.post
       /\ step.post[CursorRules] = TextFile(convertToCursorRules(parseSkillFile(step.pre, Join(skillDir, SKILL_MD))))

\* C30: in a sequence of deploys without force and dry run, a cursor turn
\* succeeds only while there is no .cursorrules, every cursor turn after
\* that fails with already exists, and the file, once written, keeps the
\* document of the first skill
C30_FirstCursorDeployWins ==
  [][/\ CursorRules \in DOMAIN fs => (CursorRules \in DOMAIN fs' /\ fs'[CursorRules] = fs[CursorRules])
     /\ (last.op = "none" /\ last'.op = "deploy" /\ ~last'.ret.threw) =>
          \A i \in 1..Len(last'.ret.steps) :
            last'.ret.steps[i].result.target = "cursor" => CursorTurn(last'.ret.steps[i], last'.skillDir)]_vars

C30_Witness ==
  /\ DeployReturned
  /\ last.skillDir = SkB
  /\ \E i \in 1..Len(Steps) :
       /\ Steps[i].result.target = "cursor"
       /\ ~Steps[i].result.success
       /\ Steps[i].result.error = "already exists. Use --force to overwrite."
  /\ CursorRules \in DOMAIN fs
  /\ fs[CursorRules] = TextFile(convertToCursorRules(parseSkillFile(fs, Join(SkA, SKILL_MD))))
  /\ fs[CursorRules] # TextFile(convertToCursorRules(parseSkillFile(fs, Join(SkB, SKILL_MD))))
====
